---- MODULE Spec2Model ----
(***************************************************************************)
(* A model of the session core of cli/src/cli_util.rs: operation-head      *)
(* resolution (CommandHelper::resolve_operation), the working-copy         *)
(* staleness check (check_stale_working_copy, snapshot_working_copy) and   *)
(* the transaction commit protocol (finish_transaction,                    *)
(* update_working_copy), run by several command processes that share one   *)
(* operation store and one workspace.                                      *)
(***************************************************************************)
EXTENDS Naturals, Integers, Sequences, FiniteSets, TLC

\* ------------------------------------------------------------------ bounds
\* Command processes that can run at once, and operations the store can hold.
NumProcs == 3
MaxOps == 5
\* Heads the op-heads store can hold at once.
MaxHeads == 3
\* Tree ids a snapshot or a command can produce.
NumTrees == 2
\* The most commits one rebase_descendants reports.
MaxRebased == 1
\* The latest step of a head resolution that can fail: 1 is the first
\* merge_operation, 2 the first rebase_descendants.
MaxFailAt == 2
\* Commits and change ids of the commit graphs handed to report_repo_changes.
MaxCommits == 3
NumChangeIds == 2
\* Operations of the op stores snapshot_working_copy is run on alone.
NumStoreOps == 3
\* Names on the command line that are no command (each an alias or not),
\* the longest alias definition and the most arguments after the binary.
NumNames == 2
MaxDefLen == 2
MaxArgs == 2
\* The longest chain of sources behind an error handed to
\* handle_command_result.
MaxSources == 2

Procs == 1..NumProcs
Trees == 1..NumTrees

\* --at-operation "@" (the default): load the current head.  Any other value
\* of at_op is an explicit operation reference.
AtHead == 0
\* An explicit reference that names no operation of the store.
UnknownOp == MaxOps + 1

\* ------------------------------------------------------------- data model
\* A commit as far as this file reads it: its id and its tree id.  The
\* commits of the model differ by their tree alone, which stands for the id.
Commit(t) == [id |-> t, tree |-> t]
Commits == {Commit(t) : t \in Trees}
\* view().get_wc_commit_id(workspace_id) = None: the workspace was deleted.
NoCommit == [id |-> 0, tree |-> 0]

VARIABLES
    ops,        \* op store: ops[i] = [parents: Seq(op id), wc: commit | NoCommit]
    op_heads,   \* op heads store: the set of head operation ids
    wc_record,  \* working-copy state file: [op, tree]
    wc_lock,    \* holder of the working-copy lock, 0 when free
    pc,         \* per process: where its command stands ("off": never runs)
    may_update, \* per process: may_update_working_copy of its helper
    repo,       \* per process: op id of user_repo.repo, 0 when no repo is loaded
    out,        \* the latest step: its process, what it did and wrote to ui in
                \* order, its check_stale_working_copy call, the Result returned
    report,     \* the latest report_repo_changes over a commit graph: the
                \* graph, the heads of the two views and what it found
    alias       \* resolve_aliases: the alias table, the arguments and the
                \* aliases expanded so far

vars == <<ops, op_heads, wc_record, wc_lock, pc, may_update, repo, out, report,
         alias>>

\* The processes that run commands in this behaviour, and the operations its
\* store can hold: the more processes run at once, the shorter the history.
Running == {p \in Procs : pc[p] # "off"}
OpsCap == MaxOps + 1 - Cardinality(Running)

\* ------------------------------------------------------------ CommandError
NoResult == [kind |-> "none", msg |-> "", hint |-> "", named |-> <<>>]
Ok == [kind |-> "ok", msg |-> "", hint |-> "", named |-> <<>>]
user_error(m) == [kind |-> "user", msg |-> m, hint |-> "", named |-> <<>>]
user_error_with_hint(m, h, ids) == [kind |-> "user", msg |-> m, hint |-> h, named |-> ids]
\* A variant of internal_error that builds a UserError.
internal_error_as_user(m, ids) == [kind |-> "user", msg |-> m, hint |-> "", named |-> ids]
internal_error(m, ids) == [kind |-> "internal", msg |-> m, hint |-> "", named |-> ids]

\* One entry of a command's log: an event and the operation id, tree id or
\* count it carries.
E(ev, n) == [ev |-> ev, n |-> n]

\* ------------------------------------------------------------- operations
OpIds == 1..Len(ops)
Range(s) == {s[i] : i \in DOMAIN s}
View(o) == ops[o].wc

RECURSIVE Scan(_, _, _, _, _)
\* One side's turn of the walk: each node of `work` in order; a node the other
\* side has visited is the answer, a new node is visited and its parents queued.
Scan(work, i, visited, other, next) ==
    IF i > Len(work)
    THEN [found |-> FALSE, node |-> 0, visited |-> visited, next |-> next]
    ELSE IF work[i] \in other
    THEN [found |-> TRUE, node |-> work[i], visited |-> visited, next |-> next]
    ELSE IF work[i] \notin visited
    THEN Scan(work, i + 1, visited \cup {work[i]}, other, next \o ops[work[i]].parents)
    ELSE Scan(work, i + 1, visited, other, next)

RECURSIVE Closest(_, _, _, _)
Closest(work1, work2, visited1, visited2) ==
    IF work1 = <<>> /\ work2 = <<>> THEN 0
    ELSE LET s1 == Scan(work1, 1, visited1, visited2, <<>>) IN
         IF s1.found THEN s1.node
         ELSE LET s2 == Scan(work2, 1, visited2, s1.visited, <<>>) IN
              IF s2.found THEN s2.node
              ELSE Closest(s1.next, s2.next, s1.visited, s2.visited)

\* dag_walk::closest_common_node_ok: breadth-first from both sides, level by
\* level, until one side meets a node the other has visited; 0 for None.
closest_common_node(set1, set2) == Closest(set1, set2, {}, {})

\* ------------------------------------------------- check_stale_working_copy
Fresh == [state |-> "Fresh", op |-> 0]
Updated(wc_operation) == [state |-> "Updated", op |-> wc_operation]
WorkingCopyStale == [state |-> "WorkingCopyStale", op |-> 0]
SiblingOperation == [state |-> "SiblingOperation", op |-> 0]
\* .expect("unrelated operations") on None
Panic == [state |-> "panic", op |-> 0]

\* A variant that takes operations without a common ancestor for siblings.
check_stale_unrelated_as_sibling(old_tree_id, old_operation_id, wc_commit, repo_op) ==
    IF wc_commit.tree = old_tree_id
    THEN Fresh
    ELSE LET ancestor_op == closest_common_node(<<old_operation_id>>, <<repo_op>>) IN
         IF ancestor_op = repo_op THEN Updated(old_operation_id)
         ELSE IF ancestor_op = old_operation_id THEN WorkingCopyStale
         ELSE SiblingOperation

\* A variant of check_stale_working_copy with the two ancestor tests swapped.
check_stale_swapped(old_tree_id, old_operation_id, wc_commit, repo_op) ==
    IF wc_commit.tree = old_tree_id
    THEN Fresh
    ELSE LET ancestor_op == closest_common_node(<<old_operation_id>>, <<repo_op>>) IN
         IF ancestor_op = 0 THEN Panic
         ELSE IF ancestor_op = old_operation_id THEN Updated(old_operation_id)
         ELSE IF ancestor_op = repo_op THEN WorkingCopyStale
         ELSE SiblingOperation

\* A variant that takes the working copy for fresh when its operation is the
\* repo's, whatever the trees.
check_stale_by_operation(old_tree_id, old_operation_id, wc_commit, repo_op) ==
    IF old_operation_id = repo_op
    THEN Fresh
    ELSE LET ancestor_op == closest_common_node(<<old_operation_id>>, <<repo_op>>) IN
         IF ancestor_op = 0 THEN Panic
         ELSE IF ancestor_op = repo_op THEN Updated(old_operation_id)
         ELSE IF ancestor_op = old_operation_id THEN WorkingCopyStale
         ELSE SiblingOperation

\* A variant whose Updated carries the repo's operation.
check_stale_updated_to_repo(old_tree_id, old_operation_id, wc_commit, repo_op) ==
    IF wc_commit.tree = old_tree_id
    THEN Fresh
    ELSE LET ancestor_op == closest_common_node(<<old_operation_id>>, <<repo_op>>) IN
         IF ancestor_op = 0 THEN Panic
         ELSE IF ancestor_op = repo_op THEN Updated(repo_op)
         ELSE IF ancestor_op = old_operation_id THEN WorkingCopyStale
         ELSE SiblingOperation

\* old_tree_id, old_operation_id: the working-copy record as locked;
\* wc_commit: the working-copy commit of the loaded view; repo_op: repo.operation().
check_stale_working_copy(old_tree_id, old_operation_id, wc_commit, repo_op) ==
    IF wc_commit.tree = old_tree_id
    THEN Fresh
    ELSE LET ancestor_op == closest_common_node(<<old_operation_id>>, <<repo_op>>) IN
         IF ancestor_op = 0 THEN Panic
         ELSE IF ancestor_op = repo_op THEN Updated(old_operation_id)
         ELSE IF ancestor_op = old_operation_id THEN WorkingCopyStale
         ELSE SiblingOperation

\* The operations check_stale_working_copy reads from the op store on the way.
read_operation_ids(old_tree_id, old_operation_id, wc_commit) ==
    IF wc_commit.tree = old_tree_id THEN <<>> ELSE <<old_operation_id>>

\* ------------------------------------------------------------ transactions
\* Variant: the transaction does not keep its base as a parent.
start_repo_transaction_detached(base) ==
    [base |-> base, parents |-> <<>>, wc |-> View(base), has_changes |-> FALSE]

\* start_repo_transaction: a transaction forked from the snapshot at `base`.
start_repo_transaction(base) ==
    [base |-> base, parents |-> <<base>>, wc |-> View(base), has_changes |-> FALSE]

\* The working-copy pointer of the view after a three-way merge of `other`
\* into `self` relative to `base`.
merge_view(self, base, other) ==
    IF base # NoCommit
    THEN IF other = base \/ other = self THEN self
         ELSE IF other # NoCommit THEN (IF self = base THEN other ELSE self)
         ELSE NoCommit
    ELSE IF self = NoCommit /\ other # NoCommit THEN other ELSE self

\* Transaction::merge_operation: absorb another operation; it becomes a parent.
merge_operation(tx, other) ==
    LET ancestor == closest_common_node(tx.parents, <<other>>)
        merged == merge_view(tx.wc, View(ancestor), View(other))
    IN [tx EXCEPT !.parents = Append(@, other),
                  !.wc = merged,
                  !.has_changes = @ \/ merged # tx.wc]

\* The operation a transaction writes: its parents are the base and the
\* operations merged in, in that order.
NewOperation(tx) == [parents |-> tx.parents, wc |-> tx.wc]

\* OpHeadsStore::update_op_heads: the new head replaces its parents.
update_op_heads(heads, old_ids, new_id) == (heads \ old_ids) \cup {new_id}

\* ------------------------------------------------------- resolve_operation
\* The orders in which the store can list a set of heads.
RECURSIVE Perms(_)
Perms(S) ==
    IF S = {} THEN {<<>>}
    ELSE UNION {{<<x>> \o t : t \in Perms(S \ {x})} : x \in S}

RECURSIVE MergeLoopQuiet(_, _, _, _, _, _)
\* A variant of MergeLoop that never writes the rebase count to ui.
MergeLoopQuiet(op_heads_list, i, tx, nr, failAt, lg) ==
    IF i > Len(op_heads_list)
    THEN [err |-> Ok, tx |-> tx, log |-> lg]
    ELSE IF failAt = 2 * (i - 1) - 1
    THEN [err |-> internal_error("Failed to load the repo", <<>>), tx |-> tx, log |-> lg]
    ELSE LET merged == merge_operation(tx, op_heads_list[i])
             lg1 == lg \o <<E("merge", op_heads_list[i])>>
         IN IF failAt = 2 * (i - 1)
            THEN [err |-> internal_error("Merge failed", <<>>), tx |-> merged, log |-> lg1]
            ELSE MergeLoopQuiet(op_heads_list, i + 1, merged, nr, failAt,
                                lg1 \o <<E("rebase", nr[i - 1])>>)

RECURSIVE MergeLoopRebaseLast(_, _, _, _, _, _)
\* A variant of MergeLoop that merges every head first and runs one
\* descendant rebase after the last merge.
MergeLoopRebaseLast(op_heads_list, i, tx, nr, failAt, lg) ==
    IF i > Len(op_heads_list)
    THEN [err |-> Ok, tx |-> tx,
          log |-> lg \o <<E("rebase", nr[1])>>
                  \o (IF nr[1] > 0 THEN <<E("msg_rebased", nr[1])>> ELSE <<>>)]
    ELSE IF failAt = 2 * (i - 1) - 1
    THEN [err |-> internal_error("Failed to load the repo", <<>>), tx |-> tx, log |-> lg]
    ELSE LET merged == merge_operation(tx, op_heads_list[i])
             lg1 == lg \o <<E("merge", op_heads_list[i])>>
         IN IF failAt = 2 * (i - 1)
            THEN [err |-> internal_error("Merge failed", <<>>), tx |-> merged, log |-> lg1]
            ELSE MergeLoopRebaseLast(op_heads_list, i + 1, merged, nr, failAt, lg1)

RECURSIVE MergeLoop(_, _, _, _, _, _)
\* The loop over op_heads.into_iter().skip(1).  `nr[k]` is what the k-th
\* rebase_descendants returns; failAt = 2k-1 makes the k-th merge_operation
\* fail, failAt = 2k the k-th rebase_descendants, 0 neither.
MergeLoop(op_heads_list, i, tx, nr, failAt, lg) ==
    IF i > Len(op_heads_list)
    THEN [err |-> Ok, tx |-> tx, log |-> lg]
    ELSE IF failAt = 2 * (i - 1) - 1
    THEN [err |-> internal_error("Failed to load the repo", <<>>), tx |-> tx, log |-> lg]
    ELSE LET merged == merge_operation(tx, op_heads_list[i])
             lg1 == lg \o <<E("merge", op_heads_list[i])>>
         IN IF failAt = 2 * (i - 1)
            THEN [err |-> internal_error("Merge failed", <<>>), tx |-> merged, log |-> lg1]
            ELSE LET num_rebased == nr[i - 1]
                     lg2 == lg1 \o <<E("rebase", num_rebased)>>
                            \o (IF num_rebased > 0
                                THEN <<E("msg_rebased", num_rebased)>>
                                ELSE <<>>)
                 IN MergeLoop(op_heads_list, i + 1, merged, nr, failAt, lg2)

\* A variant of the closure whose loop starts one head late (skip(2)).
resolver_skip_two(op_heads_list, nr, failAt) ==
    LET lg0 == <<E("msg_concurrent", 0), E("load_at", op_heads_list[1]),
                 E("start_tx", op_heads_list[1])>>
        r == MergeLoop(op_heads_list, 3, start_repo_transaction(op_heads_list[1]),
                       nr, failAt, lg0)
    IN IF r.err # Ok
       THEN [err |-> r.err, new |-> <<>>, log |-> r.log]
       ELSE [err |-> Ok, new |-> <<NewOperation(r.tx)>>,
             log |-> r.log \o <<E("write", Len(ops) + 1)>>]

\* The closure given to resolve_op_heads: merge every listed head into a
\* transaction based on the first, write the operation, leave it unpublished.
\* Yields the error or the operation to append.
resolver(op_heads_list, nr, failAt) ==
    LET lg0 == <<E("msg_concurrent", 0), E("load_at", op_heads_list[1]),
                 E("start_tx", op_heads_list[1])>>
        r == MergeLoop(op_heads_list, 2, start_repo_transaction(op_heads_list[1]),
                       nr, failAt, lg0)
    IN IF r.err # Ok
       THEN [err |-> r.err, new |-> <<>>, log |-> r.log]
       ELSE [err |-> Ok, new |-> <<NewOperation(r.tx)>>,
             log |-> r.log \o <<E("write", Len(ops) + 1)>>]

\* Variant: the missing heads are reported as a user error with a remedy.
no_heads_error_with_hint ==
    user_error_with_hint("Corrupt repository", "Run jj op restore.", <<>>)

\* From<OpHeadResolutionError> for CommandError: NoHeads.
no_heads_error == internal_error("Corrupt repository", <<>>)

\* op_heads_store::resolve_op_heads: no head is an error, one head is the
\* answer, several are handed to the resolver and replaced by its operation.
resolve_op_heads(op_heads_list, nr, failAt) ==
    LET lg == <<E("get_op_heads", Cardinality(op_heads))>> IN
    IF op_heads = {}
    THEN [err |-> no_heads_error, op |-> 0,
          new |-> <<>>, heads |-> op_heads, log |-> lg]
    ELSE IF Cardinality(op_heads) = 1
    THEN [err |-> Ok, op |-> CHOOSE h \in op_heads : TRUE,
          new |-> <<>>, heads |-> op_heads, log |-> lg]
    ELSE LET r == resolver(op_heads_list, nr, failAt) IN
         IF r.err # Ok
         THEN [err |-> r.err, op |-> 0, new |-> <<>>, heads |-> op_heads,
               log |-> lg \o r.log]
         ELSE [err |-> Ok, op |-> Len(ops) + 1, new |-> r.new,
               heads |-> update_op_heads(op_heads, Range(r.new[1].parents), Len(ops) + 1),
               log |-> lg \o r.log \o <<E("update_op_heads", Len(ops) + 1)>>]

\* op_walk::resolve_op_for_load of an explicit reference: a lookup, no merge.
resolve_op_for_load(at) ==
    IF at \in OpIds
    THEN [err |-> Ok, op |-> at, new |-> <<>>, heads |-> op_heads,
          log |-> <<E("resolve_op_for_load", at)>>]
    ELSE [err |-> user_error("No operation ID matching"), op |-> 0,
          new |-> <<>>, heads |-> op_heads, log |-> <<E("resolve_op_for_load", at)>>]

\* A variant of resolve_operation that opens a transaction on a single head
\* too and writes its operation.
resolve_operation_writes_always(at, op_heads_list, nr, failAt) ==
    IF at # AtHead THEN resolve_op_for_load(at)
    ELSE IF Cardinality(op_heads) # 1 THEN resolve_op_heads(op_heads_list, nr, failAt)
    ELSE LET h == CHOOSE h \in op_heads : TRUE IN
         [err |-> Ok, op |-> Len(ops) + 1,
          new |-> <<NewOperation(start_repo_transaction(h))>>,
          heads |-> {Len(ops) + 1},
          log |-> <<E("get_op_heads", 1), E("start_tx", h), E("write", Len(ops) + 1),
                    E("update_op_heads", Len(ops) + 1)>>]

\* A variant of resolve_operation that commits a transaction on the
\* operation an explicit reference names.
resolve_operation_writes_explicit(at, op_heads_list, nr, failAt) ==
    IF at = AtHead THEN resolve_op_heads(op_heads_list, nr, failAt)
    ELSE IF at \notin OpIds THEN resolve_op_for_load(at)
    ELSE [err |-> Ok, op |-> Len(ops) + 1,
          new |-> <<NewOperation(start_repo_transaction(at))>>,
          heads |-> update_op_heads(op_heads, {at}, Len(ops) + 1),
          log |-> <<E("resolve_op_for_load", at), E("write", Len(ops) + 1),
                    E("update_op_heads", Len(ops) + 1)>>]

\* CommandHelper::resolve_operation
resolve_operation(at, op_heads_list, nr, failAt) ==
    IF at = AtHead
    THEN resolve_op_heads(op_heads_list, nr, failAt)
    ELSE resolve_op_for_load(at)

\* GlobalArgs as far as the helper reads them.
GlobalArgs(at_operation, ignore_working_copy) ==
    [at_operation |-> at_operation, ignore_working_copy |-> ignore_working_copy]

\* Variant: --ignore-working-copy is not looked at.
may_update_ignores_flag(at_operation, ignore_working_copy) ==
    at_operation = AtHead

\* WorkspaceCommandHelper::new: loaded_at_head and not --ignore-working-copy.
may_update_working_copy(at_operation, ignore_working_copy) ==
    at_operation = AtHead /\ ~ignore_working_copy

\* check_working_copy_writable of a helper with these global_args.
check_working_copy_writable(may_update_wc, args) ==
    IF may_update_wc
    THEN Ok
    ELSE user_error_with_hint("This command must be able to update the working copy.",
                              IF args.ignore_working_copy
                              THEN "Don't use --ignore-working-copy."
                              ELSE "Don't use --at-op.", <<>>)

\* maybe_snapshot: where the command goes on, to snapshot_working_copy when
\* the helper may update the working copy.
maybe_snapshot(may_update_wc) == IF may_update_wc THEN "snapshot" ELSE "loaded"

\* ------------------------------------------------------ report_repo_changes
CommitIds == 1..MaxCommits
ChangeIds == 1..NumChangeIds

\* The commit graphs of a repo as far as the report reads them: each commit
\* has parents among the commits written before it (none: it is a child of
\* the root commit), a change id, conflicts in its tree or none, and changes
\* to files or none (an empty commit).  An empty commit has the tree of its
\* parent, or the merge of the trees of its parents, which can conflict.
CommitGraphs ==
    {g \in [CommitIds -> [parents : SUBSET CommitIds, change_id : ChangeIds,
                          has_conflict : BOOLEAN, is_empty : BOOLEAN]] :
        \A c \in CommitIds :
            /\ \A q \in g[c].parents : q < c
            /\ (g[c].is_empty /\ g[c].parents = {}) => ~g[c].has_conflict
            /\ \A q \in g[c].parents :
                  (g[c].is_empty /\ g[c].parents = {q})
                  => g[c].has_conflict = g[q].has_conflict}

RECURSIVE AncestorsOf(_, _)
\* The commit c and all its ancestors.
AncestorsOf(g, c) == {c} \cup UNION {AncestorsOf(g, q) : q \in g[c].parents}

\* The head sets a view can have: no head an ancestor of another.  The empty
\* set stands for the view whose only head is the root commit.
HeadSets(g) ==
    {h \in SUBSET CommitIds :
        \A a, b \in h : a # b => a \notin AncestorsOf(g, b)}

\* roots.range(heads), evaluated: the ancestors of the heads that are not
\* ancestors of the roots.
revset_range(g, roots, heads) ==
    UNION {AncestorsOf(g, c) : c \in heads} \ UNION {AncestorsOf(g, c) : c \in roots}

\* filter(HasConflict) & filter(File(None)): the conflicted commits that
\* change files.
conflicts(g) == {c \in CommitIds : g[c].has_conflict /\ ~g[c].is_empty}

commits_by_change_id(g, commits) ==
    [x \in {g[c].change_id : c \in commits} |-> {c \in commits : g[c].change_id = x}]

\* A variant of resolved_conflicts without the retain.
resolved_conflicts_all_removed(removed_conflicts_by_change_id, added_conflicts_by_change_id) ==
    removed_conflicts_by_change_id

\* resolved_conflicts_by_change_id: the removed groups whose change id has
\* no added group.
resolved_conflicts(removed_conflicts_by_change_id, added_conflicts_by_change_id) ==
    [x \in DOMAIN removed_conflicts_by_change_id \ DOMAIN added_conflicts_by_change_id |->
        removed_conflicts_by_change_id[x]]

\* A variant of new_conflicts without the retain.
new_conflicts_all_added(removed_conflicts_by_change_id, added_conflicts_by_change_id) ==
    added_conflicts_by_change_id

\* new_conflicts_by_change_id: the added groups whose change id has no
\* removed group.
new_conflicts(removed_conflicts_by_change_id, added_conflicts_by_change_id) ==
    [x \in DOMAIN added_conflicts_by_change_id \ DOMAIN removed_conflicts_by_change_id |->
        added_conflicts_by_change_id[x]]

\* commits(ids).roots(), evaluated: the commits of the set that have no other
\* commit of the set among their ancestors.
revset_roots(g, commits) == {c \in commits : AncestorsOf(g, c) \cap commits = {c}}

\* A variant of show_hints that asks for a new conflict.
show_hints_when_new(added_conflict_commits, resolved_conflicts_by_change_id, new_conflicts_by_change_id) ==
    ~(added_conflict_commits = {} \/ DOMAIN new_conflicts_by_change_id = {})

\* The condition of the hints: some conflicts were added, and some change id
\* is reported as resolved or as new.
show_hints(added_conflict_commits, resolved_conflicts_by_change_id, new_conflicts_by_change_id) ==
    ~(\/ added_conflict_commits = {}
      \/ (DOMAIN resolved_conflicts_by_change_id = {}
          /\ DOMAIN new_conflicts_by_change_id = {}))

\* The hints of report_repo_changes.  "msg_still_unresolved": "There are still
\* unresolved conflicts in rebased descendants."; "msg_hint" n: "To resolve
\* the conflicts, start by updating to" 1 "it", 2 "the first one", 3 "one of
\* the first ones"; roots: the commits of the "jj new" lines.
report_hints(g, added_conflict_commits, resolved_conflicts_by_change_id, new_conflicts_by_change_id) ==
    IF show_hints(added_conflict_commits, resolved_conflicts_by_change_id,
                  new_conflicts_by_change_id)
    THEN LET root_conflict_commits == revset_roots(g, added_conflict_commits)
         IN [roots |-> root_conflict_commits,
             log |-> (IF DOMAIN new_conflicts_by_change_id = {}
                      THEN <<E("msg_still_unresolved", 0)>> ELSE <<>>)
                     \o (IF root_conflict_commits = {} THEN <<>>
                         ELSE IF Cardinality(added_conflict_commits) = 1
                         THEN <<E("msg_hint", 1)>>
                         ELSE IF Cardinality(root_conflict_commits) = 1
                         THEN <<E("msg_hint", 2)>>
                         ELSE <<E("msg_hint", 3)>>)]
    ELSE [roots |-> {}, log |-> <<>>]

\* report_repo_changes: the conflicted commits that left and that entered the
\* heads' ancestry, grouped by change id, the two lists written to ui and
\* the hints.
report_repo_changes(g, old_heads, new_heads) ==
    LET removed_conflict_commits == revset_range(g, new_heads, old_heads) \cap conflicts(g)
        added_conflict_commits == revset_range(g, old_heads, new_heads) \cap conflicts(g)
        removed_conflicts_by_change_id == commits_by_change_id(g, removed_conflict_commits)
        added_conflicts_by_change_id == commits_by_change_id(g, added_conflict_commits)
        resolved_conflicts_by_change_id ==
            resolved_conflicts(removed_conflicts_by_change_id, added_conflicts_by_change_id)
        new_conflicts_by_change_id ==
            new_conflicts(removed_conflicts_by_change_id, added_conflicts_by_change_id)
        hints == report_hints(g, added_conflict_commits, resolved_conflicts_by_change_id,
                              new_conflicts_by_change_id)
    IN [commits |-> g, old_heads |-> old_heads, new_heads |-> new_heads,
        removed |-> removed_conflict_commits, added |-> added_conflict_commits,
        resolved |-> resolved_conflicts_by_change_id,
        new |-> new_conflicts_by_change_id,
        roots |-> hints.roots,
        log |-> (IF DOMAIN resolved_conflicts_by_change_id # {}
                 THEN <<E("msg_resolved", Cardinality(DOMAIN resolved_conflicts_by_change_id))>>
                 ELSE <<>>)
                \o (IF DOMAIN new_conflicts_by_change_id # {}
                    THEN <<E("msg_new", Cardinality(DOMAIN new_conflicts_by_change_id))>>
                    ELSE <<>>)
                \o hints.log]

\* No report_repo_changes over a commit graph yet.
NoReport == [commits |-> <<>>, old_heads |-> {}, new_heads |-> {}, removed |-> {},
             added |-> {}, resolved |-> <<>>, new |-> <<>>, roots |-> {},
             log |-> <<>>]

\* ---------------------------------------------------------- resolve_aliases
\* The words of a command line: the binary, a real command, and names that
\* are no command.
Binary == 0 - 1
RealCommand == 0
Names == 1..NumNames
Words == {RealCommand} \cup Names
WordLists(n) == UNION {[1..k -> Words] : k \in 0..n}

\* The value of an alias in the config: a list of strings or something else.
AliasDefs ==
    [is_list : {TRUE}, words : WordLists(MaxDefLen)]
        \cup {[is_list |-> FALSE, words |-> <<>>]}

\* The merged alias table: some of the names with a value each.
AliasTables == UNION {[D -> AliasDefs] : D \in SUBSET Names}

\* try_get_matches_from(...).subcommand(): the word after the binary is the
\* command name, what follows it are the arguments of an external command.
subcommand(string_args) ==
    IF Len(string_args) >= 2
    THEN [found |-> TRUE, command_name |-> string_args[2],
          alias_args |-> SubSeq(string_args, 3, Len(string_args))]
    ELSE [found |-> FALSE, command_name |-> RealCommand, alias_args |-> <<>>]

\* aliases_map.remove(&alias_name)
remove(aliases_map, alias_name) ==
    [a \in DOMAIN aliases_map \ {alias_name} |-> aliases_map[a]]

\* A variant of the loop body without the visited set: an alias stays in the
\* table and is expanded each time it is met.
resolve_aliases_unguarded(st) ==
    LET m == subcommand(st.string_args)
        alias_name == m.command_name
    IN IF ~m.found \/ alias_name = RealCommand \/ alias_name \notin DOMAIN st.aliases_map
       THEN [st EXCEPT !.pc = "done", !.result = Ok]
       ELSE IF ~st.aliases_map[alias_name].is_list
       THEN [st EXCEPT !.pc = "done",
                       !.result = user_error("Alias definition must be a string list")]
       ELSE [st EXCEPT !.string_args =
                           SubSeq(@, 1, Len(@) - 1 - Len(m.alias_args))
                           \o st.aliases_map[alias_name].words \o m.alias_args]

\* One iteration of the loop of resolve_aliases.
resolve_aliases_iteration(st) ==
    LET m == subcommand(st.string_args)
        alias_name == m.command_name
        done(r) == [st EXCEPT !.pc = "done", !.result = r]
    IN IF ~m.found \/ alias_name = RealCommand
       THEN done(Ok)
       ELSE IF alias_name \in st.resolved_aliases
       THEN done(user_error("Recursive alias definition involving"))
       ELSE IF alias_name \in DOMAIN st.aliases_map
       THEN IF st.aliases_map[alias_name].is_list
            THEN [st EXCEPT !.aliases_map = remove(@, alias_name),
                            !.string_args =
                                SubSeq(@, 1, Len(@) - 1 - Len(m.alias_args))
                                \o st.aliases_map[alias_name].words \o m.alias_args,
                            !.resolved_aliases = @ \cup {alias_name}]
            ELSE [done(user_error("Alias definition must be a string list"))
                     EXCEPT !.aliases_map = remove(@, alias_name)]
       ELSE done(Ok)

\* No resolve_aliases under way.
NoAlias == [defined |-> <<>>, aliases_map |-> <<>>, string_args |-> <<>>,
            resolved_aliases |-> {}, pc |-> "off", result |-> NoResult]

\* ------------------------------------------------------------------- state
NoCheck == [res |-> [state |-> "none", op |-> 0], wc_op |-> 0, repo_op |-> 0,
            wc_tree |-> 0, commit_tree |-> 0]
\* What the latest step left for inspection: the process, its log, the
\* classification and the result, and the state the step started from.
Out(p, lg, c, r) ==
    [proc |-> p, log |-> lg, chk |-> c, result |-> r,
     pre |-> [ops |-> ops, op_heads |-> op_heads, wc_record |-> wc_record,
              wc_lock |-> wc_lock, pc |-> pc, may_update |-> may_update, repo |-> repo]]
\* The state the latest step started from, and its operation ids.
Pre == out.pre
PreOpIds == 1..Len(Pre.ops)

\* A fresh workspace: one operation, whose view has the working-copy commit
\* the working copy is synced to.  From one to NumProcs processes run commands.
Init ==
    /\ ops = <<[parents |-> <<>>, wc |-> Commit(1)]>>
    /\ op_heads = {1}
    /\ wc_record = [op |-> 1, tree |-> 1]
    /\ wc_lock = 0
    /\ \E n \in 1..NumProcs : pc = [p \in Procs |-> IF p <= n THEN "idle" ELSE "off"]
    /\ may_update = [p \in Procs |-> FALSE]
    /\ repo = [p \in Procs |-> 0]
    /\ out = Out(0, <<>>, NoCheck, NoResult)
    /\ report = NoReport
    /\ alias = NoAlias

\* The command of process p returns: the process ends, its session is gone.
Return(p) ==
    /\ pc' = [pc EXCEPT ![p] = "idle"]
    /\ may_update' = [may_update EXCEPT ![p] = FALSE]
    /\ repo' = [repo EXCEPT ![p] = 0]

\* The command goes on at `where` with its repo at operation r.
Goto(p, where, r) ==
    /\ pc' = [pc EXCEPT ![p] = where]
    /\ repo' = [repo EXCEPT ![p] = r]
    /\ UNCHANGED may_update

\* Variant: the operation is written and the op heads are updated later.
Publish_later(new) ==
    /\ Len(ops) + Len(new) <= OpsCap
    /\ ops' = ops \o new
    /\ op_heads' = op_heads

\* The store after a step appended the operations `new` (none or one): a new
\* operation becomes a head in place of its parents.
Publish(new) ==
    /\ Len(ops) + Len(new) <= OpsCap
    /\ ops' = ops \o new
    /\ op_heads' = IF new = <<>> THEN op_heads
                   ELSE update_op_heads(op_heads, Range(new[1].parents), Len(ops) + 1)
    /\ Cardinality(op_heads') <= MaxHeads

\* ------------------------------------------------------ loading a workspace
\* What the store and the library give a resolution: the order of the heads,
\* each rebase count and the failing step.  One choice when nothing is merged.
ResolveInputs(at) ==
    IF at = AtHead /\ Cardinality(op_heads) >= 2
    THEN {i \in [list : Perms(op_heads),
                  nr : [1..(Cardinality(op_heads) - 1) -> 0..MaxRebased],
                  failAt : 0..MaxFailAt] :
            \A k \in DOMAIN i.nr : (i.failAt # 0 /\ 2 * k >= i.failAt) => i.nr[k] = 0}
    ELSE {[list |-> <<>>, nr |-> <<>>, failAt |-> 0]}

\* CommandHelper::workspace_helper_no_snapshot for a new command of process
\* p: resolve the operation, load the repo there, build the helper.  With
\* several heads the resolution writes the merge operation and publishes it.
\* Idle processes are alike, so the first of them takes the command.
LoadWorkspace(p) ==
    /\ pc[p] = "idle"
    /\ \A q \in Procs : q < p => pc[q] # "idle"
    /\ UNCHANGED <<report, alias>>
    /\ \E at \in {AtHead} \cup OpIds \cup {UnknownOp} :
       \E r \in {resolve_operation(at, i.list, i.nr, i.failAt) : i \in ResolveInputs(at)},
          may \in {may_update_working_copy(at, ign) : ign \in BOOLEAN} :
             /\ Len(ops) + Len(r.new) <= OpsCap
             /\ ops' = ops \o r.new
             /\ op_heads' = r.heads
             /\ out' = Out(p, r.log, NoCheck, IF r.err # Ok THEN r.err ELSE NoResult)
             /\ IF r.err # Ok
                THEN Return(p)
                ELSE /\ pc' = [pc EXCEPT ![p] = maybe_snapshot(may)]
                     /\ may_update' = [may_update EXCEPT ![p] = may]
                     /\ repo' = [repo EXCEPT ![p] = r.op]
             /\ UNCHANGED <<wc_record, wc_lock>>

\* --------------------------------------------------- snapshot_working_copy
\* Variant: the working-copy lock is taken without regard to its holder.
SnapshotLock_unguarded(p) ==
    /\ pc[p] = "snapshot"
    /\ IF View(repo[p]) = NoCommit
       THEN /\ Goto(p, "loaded", repo[p])
            /\ out' = Out(p, <<>>, NoCheck, NoResult)
            /\ UNCHANGED wc_lock
       ELSE /\ wc_lock' = p
            /\ Goto(p, "locked", repo[p])
            /\ out' = Out(p, <<E("lock", wc_record.op)>>, NoCheck, NoResult)
    /\ UNCHANGED <<ops, op_heads, wc_record, report, alias>>

\* The start of snapshot_working_copy: without a working-copy commit in the
\* view it returns Ok; otherwise it takes the working-copy lock, waiting while
\* another process holds it.
SnapshotLock(p) ==
    /\ pc[p] = "snapshot"
    /\ IF View(repo[p]) = NoCommit
       THEN /\ Goto(p, "loaded", repo[p])
            /\ out' = Out(p, <<>>, NoCheck, NoResult)
            /\ UNCHANGED wc_lock
       ELSE /\ wc_lock = 0
            /\ wc_lock' = p
            /\ Goto(p, "locked", repo[p])
            /\ out' = Out(p, <<E("lock", wc_record.op)>>, NoCheck, NoResult)
    /\ UNCHANGED <<ops, op_heads, wc_record, report, alias>>

\* A variant of reload_at that keeps the repo as loaded.
reload_at_loaded(repo_op, wc_operation) == repo_op

\* repo.reload_at(&wc_operation): the repo of the session from here on.
reload_at(repo_op, wc_operation) == wc_operation

\* Variant: the working copy records the operation of a transaction that
\* is never committed.
snapshot_and_finish_uncommitted(at_repo, wc_commit, new_tree_id, num_rebased, lg, c) ==
    LET lg1 == lg \o <<E("snapshot", new_tree_id)>>
        new_id == Len(ops) + 1
    IN IF new_tree_id # wc_commit.tree
       THEN [err |-> Ok, repo |-> at_repo, new |-> <<>>,
             record |-> [op |-> new_id, tree |-> new_tree_id],
             log |-> lg1 \o <<E("rebase", num_rebased), E("wc_finish", new_id)>>,
             chk |-> c]
       ELSE [err |-> Ok, repo |-> at_repo, new |-> <<>>,
             record |-> [op |-> at_repo, tree |-> new_tree_id],
             log |-> lg1 \o <<E("wc_finish", at_repo)>>, chk |-> c]

\* Variant: the snapshot commits an operation whether or not the tree changed.
snapshot_and_finish_always_commits(at_repo, wc_commit, new_tree_id, num_rebased, lg, c) ==
    LET lg1 == lg \o <<E("snapshot", new_tree_id)>>
        new_id == Len(ops) + 1
        tx == [start_repo_transaction(at_repo) EXCEPT
                  !.wc = Commit(new_tree_id), !.has_changes = TRUE]
    IN [err |-> Ok, repo |-> new_id, new |-> <<NewOperation(tx)>>,
        record |-> [op |-> new_id, tree |-> new_tree_id],
        log |-> lg1 \o <<E("rebase", num_rebased)>>
                \o (IF num_rebased > 0 THEN <<E("msg_rebased", num_rebased)>> ELSE <<>>)
                \o <<E("commit", new_id), E("wc_finish", new_id)>>,
        chk |-> c]

\* Variant: the working copy records the operation the snapshot started
\* from, also when the snapshot committed a new one.
snapshot_and_finish_at_base(at_repo, wc_commit, new_tree_id, num_rebased, lg, c) ==
    LET lg1 == lg \o <<E("snapshot", new_tree_id)>>
        new_id == Len(ops) + 1
        tx == [start_repo_transaction(at_repo) EXCEPT
                  !.wc = Commit(new_tree_id), !.has_changes = TRUE]
    IN IF new_tree_id # wc_commit.tree
       THEN [err |-> Ok, repo |-> new_id, new |-> <<NewOperation(tx)>>,
             record |-> [op |-> at_repo, tree |-> new_tree_id],
             log |-> lg1 \o <<E("rebase", num_rebased)>>
                     \o (IF num_rebased > 0 THEN <<E("msg_rebased", num_rebased)>> ELSE <<>>)
                     \o <<E("commit", new_id), E("wc_finish", at_repo)>>,
             chk |-> c]
       ELSE [err |-> Ok, repo |-> at_repo, new |-> <<>>,
             record |-> [op |-> at_repo, tree |-> new_tree_id],
             log |-> lg1 \o <<E("wc_finish", at_repo)>>, chk |-> c]

\* The end of snapshot_working_copy, once the repo and the working-copy commit
\* to snapshot against are fixed: snapshot the files, commit a rewritten
\* working-copy commit if the tree changed, record the operation.
snapshot_and_finish(at_repo, wc_commit, new_tree_id, num_rebased, lg, c) ==
    LET lg1 == lg \o <<E("snapshot", new_tree_id)>>
        new_id == Len(ops) + 1
        tx == [start_repo_transaction(at_repo) EXCEPT
                  !.wc = Commit(new_tree_id), !.has_changes = TRUE]
    IN IF new_tree_id # wc_commit.tree
       THEN [err |-> Ok, repo |-> new_id, new |-> <<NewOperation(tx)>>,
             record |-> [op |-> new_id, tree |-> new_tree_id],
             log |-> lg1 \o <<E("rebase", num_rebased)>>
                     \o (IF num_rebased > 0 THEN <<E("msg_rebased", num_rebased)>> ELSE <<>>)
                     \o <<E("commit", new_id), E("wc_finish", new_id)>>,
             chk |-> c]
       ELSE [err |-> Ok, repo |-> at_repo, new |-> <<>>,
             record |-> [op |-> at_repo, tree |-> new_tree_id],
             log |-> lg1 \o <<E("wc_finish", at_repo)>>, chk |-> c]

\* snapshot_working_copy under the lock: classify the working copy against the
\* loaded repo, reload when the working copy is ahead, fail when it is stale
\* or a sibling, then snapshot.  new_tree_id is what the snapshot of the files
\* gives, num_rebased what rebase_descendants returns.
snapshot_working_copy(record, repo_op, new_tree_id, num_rebased) ==
    LET wc_commit == View(repo_op)
        old_op_id == record.op
        f == check_stale_working_copy(record.tree, old_op_id, wc_commit, repo_op)
        c == [res |-> f, wc_op |-> old_op_id, repo_op |-> repo_op,
              wc_tree |-> record.tree, commit_tree |-> wc_commit.tree]
        rd == read_operation_ids(record.tree, old_op_id, wc_commit)
        lg == <<E("check_stale", repo_op)>>
              \o [i \in DOMAIN rd |-> E("read_operation", rd[i])]
        stop(r, l) == [err |-> r, repo |-> repo_op, new |-> <<>>, record |-> record,
                       log |-> l, chk |-> c]
    IN CASE f.state = "Fresh" ->
              snapshot_and_finish(repo_op, wc_commit, new_tree_id, num_rebased, lg, c)
         [] f.state = "Updated" ->
              LET reloaded == reload_at(repo_op, f.op)
                  lg1 == lg \o <<E("reload_at", reloaded)>>
              IN IF View(reloaded) = NoCommit
                 THEN stop(Ok, lg1)
                 ELSE snapshot_and_finish(reloaded, View(reloaded), new_tree_id,
                                          num_rebased, lg1, c)
         [] f.state = "WorkingCopyStale" ->
              stop(user_error_with_hint("The working copy is stale",
                                        "Run jj workspace update-stale to update it.",
                                        <<old_op_id>>), lg)
         [] f.state = "SiblingOperation" ->
              stop(internal_error("The repo was loaded at a sibling operation",
                                  <<repo_op, old_op_id>>), lg)
         [] f.state = "panic" ->
              stop([kind |-> "panic", msg |-> "unrelated operations", hint |-> "",
                    named |-> <<>>], lg)

\* snapshot_working_copy from the lock to the return of process p.  Every
\* path releases the lock.
SnapshotWorkingCopy(p) ==
    /\ pc[p] = "locked"
    /\ wc_lock' = 0
    /\ UNCHANGED <<report, alias>>
    /\ \E r \in {snapshot_working_copy(wc_record, repo[p], t, n) :
                    t \in Trees, n \in 0..MaxRebased} :
          /\ Publish(r.new)
          /\ wc_record' = r.record
          /\ out' = Out(p, r.log, r.chk, IF r.err # Ok THEN r.err ELSE NoResult)
          /\ IF r.err # Ok THEN Return(p) ELSE Goto(p, "loaded", r.repo)

\* ----------------------------------------------- check_working_copy_writable
\* The global_args a helper with this may_update_working_copy, loaded at
\* repo_op, can have been built with.  The helper reads them again in
\* check_working_copy_writable only, where the model draws them.
HelperArgs(may_update_wc, repo_op) ==
    {a \in {GlobalArgs(at, ign) : at \in {AtHead, repo_op}, ign \in BOOLEAN} :
        may_update_working_copy(a.at_operation, a.ignore_working_copy) = may_update_wc}

\* A command of process p that is about to write the working copy asks
\* check_working_copy_writable first: an error ends the command.  The call
\* reads the helper's own fields only, so its interleavings with other
\* processes show nothing new: the command makes it when it runs alone.
CheckWorkingCopyWritable(p) ==
    /\ pc[p] = "loaded"
    /\ Cardinality(Running) = 1
    /\ UNCHANGED <<ops, op_heads, wc_record, wc_lock, report, alias>>
    /\ \E args \in HelperArgs(may_update[p], repo[p]) :
       LET r == check_working_copy_writable(may_update[p], args) IN
       /\ out' = Out(p, <<E("at_operation", args.at_operation),
                          E("ignore_working_copy", IF args.ignore_working_copy THEN 1 ELSE 0),
                          E("check_working_copy_writable", repo[p])>>, NoCheck, r)
       /\ IF r # Ok THEN Return(p) ELSE Goto(p, "loaded", repo[p])

\* ---------------------------------------------- start_working_copy_mutation
\* Variant: a failed lock acquisition is reported as a concurrent operation.
working_copy_state_error_as_concurrent ==
    user_error("Concurrent working copy operation. Try again.")

\* From<WorkingCopyStateError> for CommandError: what `?` makes of an error
\* of Workspace::start_working_copy_mutation.
working_copy_state_error ==
    internal_error("Failed to access working copy state", <<>>)

\* unchecked_start_working_copy_mutation: the writable check, the
\* working-copy commit of the view, then the lock of the library, which is
\* acquired (lock_ok) or returns an error.
unchecked_start_working_copy_mutation(may_update_wc, args, wc_commit, lock_ok) ==
    LET c == check_working_copy_writable(may_update_wc, args)
        lg == <<E("check_working_copy_writable", IF may_update_wc THEN 1 ELSE 0)>>
    IN IF c # Ok THEN [err |-> c, locked |-> FALSE, log |-> lg]
       ELSE IF wc_commit = NoCommit
       THEN [err |-> user_error("Nothing checked out in this workspace"),
             locked |-> FALSE, log |-> lg]
       ELSE IF ~lock_ok
       THEN [err |-> working_copy_state_error, locked |-> FALSE,
             log |-> lg \o <<E("lock_failed", 0)>>]
       ELSE [err |-> Ok, locked |-> TRUE, log |-> lg \o <<E("lock", 0)>>]

\* Variant: the trees are not compared once the lock is held.
start_working_copy_mutation_unchecked(may_update_wc, args, wc_commit, old_tree_id, lock_ok) ==
    unchecked_start_working_copy_mutation(may_update_wc, args, wc_commit, lock_ok)

\* start_working_copy_mutation: with the lock held, the tree the working
\* copy was last synced to must be the tree of the working-copy commit; if
\* not, the lock is dropped and the command fails.
start_working_copy_mutation(may_update_wc, args, wc_commit, old_tree_id, lock_ok) ==
    LET r == unchecked_start_working_copy_mutation(may_update_wc, args, wc_commit, lock_ok) IN
    IF r.err # Ok THEN r
    ELSE IF wc_commit.tree # old_tree_id
    THEN [err |-> user_error("Concurrent working copy operation. Try again."),
          locked |-> FALSE, log |-> r.log \o <<E("unlock", 0)>>]
    ELSE r

\* ------------------------------------------------------ finish_transaction
\* The working-copy commits a command's transaction can leave in the view.
NewWcCommits == Commits

\* The error finish_transaction returns when report_repo_changes fails: a
\* commit cannot be read from the backend (a failed revset evaluation or ui
\* write is returned the same way).
report_error == internal_error("Unexpected error from backend", <<>>)

\* Variant: the operation is committed although rebase_descendants failed.
commit_transaction_commits_first(tx, may_update_wc, num_rebased, rebase_ok, report_ok) ==
    LET new_id == Len(ops) + 1
        lg == <<E("has_changes", IF tx.has_changes THEN 1 ELSE 0)>>
        committed == lg \o <<E("rebase", num_rebased)>>
                     \o (IF num_rebased > 0 THEN <<E("msg_rebased", num_rebased)>> ELSE <<>>)
                     \o <<E("old_repo", tx.base), E("commit", new_id)>> IN
    IF ~rebase_ok
    THEN [err |-> internal_error("Merge failed", <<>>), new |-> <<NewOperation(tx)>>,
          log |-> lg \o <<E("rebase_failed", 0)>>, update_wc |-> FALSE]
    ELSE IF ~report_ok
    THEN [err |-> report_error, new |-> <<NewOperation(tx)>>,
          log |-> committed \o <<E("report_failed", new_id)>>, update_wc |-> FALSE]
    ELSE [err |-> Ok, new |-> <<NewOperation(tx)>>,
          log |-> committed \o <<E("report", new_id)>>,
          update_wc |-> may_update_wc /\ tx.wc # NoCommit]

\* Variant: the change report is left for after update_working_copy.
commit_transaction_reports_last(tx, may_update_wc, num_rebased, rebase_ok, report_ok) ==
    LET new_id == Len(ops) + 1
        lg == <<E("has_changes", IF tx.has_changes THEN 1 ELSE 0)>>
        committed == lg \o <<E("rebase", num_rebased)>>
                     \o (IF num_rebased > 0 THEN <<E("msg_rebased", num_rebased)>> ELSE <<>>)
                     \o <<E("old_repo", tx.base), E("commit", new_id)>> IN
    IF ~rebase_ok
    THEN [err |-> internal_error("Merge failed", <<>>), new |-> <<>>,
          log |-> lg \o <<E("rebase_failed", 0)>>, update_wc |-> FALSE]
    ELSE IF may_update_wc /\ tx.wc # NoCommit
    THEN [err |-> Ok, new |-> <<NewOperation(tx)>>, log |-> committed, update_wc |-> TRUE]
    ELSE IF ~report_ok
    THEN [err |-> report_error, new |-> <<NewOperation(tx)>>,
          log |-> committed \o <<E("report_failed", new_id)>>, update_wc |-> FALSE]
    ELSE [err |-> Ok, new |-> <<NewOperation(tx)>>,
          log |-> committed \o <<E("report", new_id)>>, update_wc |-> FALSE]

\* Variant: the change report is made of the transaction before its commit.
commit_transaction_reports_first(tx, may_update_wc, num_rebased, rebase_ok, report_ok) ==
    LET new_id == Len(ops) + 1
        lg == <<E("has_changes", IF tx.has_changes THEN 1 ELSE 0)>>
        rebased == lg \o <<E("rebase", num_rebased)>>
                   \o (IF num_rebased > 0 THEN <<E("msg_rebased", num_rebased)>> ELSE <<>>)
                   \o <<E("old_repo", tx.base)>> IN
    IF ~rebase_ok
    THEN [err |-> internal_error("Merge failed", <<>>), new |-> <<>>,
          log |-> lg \o <<E("rebase_failed", 0)>>, update_wc |-> FALSE]
    ELSE IF ~report_ok
    THEN [err |-> report_error, new |-> <<>>,
          log |-> rebased \o <<E("report_failed", tx.base)>>, update_wc |-> FALSE]
    ELSE [err |-> Ok, new |-> <<NewOperation(tx)>>,
          log |-> rebased \o <<E("report", tx.base), E("commit", new_id)>>,
          update_wc |-> may_update_wc /\ tx.wc # NoCommit]

\* finish_transaction after the no-op check, up to report_repo_changes: the
\* descendant rebase, the commit, the change report.  A failed report is
\* returned at once.  update_wc: the session goes on to update_working_copy.
commit_transaction(tx, may_update_wc, num_rebased, rebase_ok, report_ok) ==
    LET new_id == Len(ops) + 1
        lg == <<E("has_changes", IF tx.has_changes THEN 1 ELSE 0)>>
        committed == lg \o <<E("rebase", num_rebased)>>
                     \o (IF num_rebased > 0 THEN <<E("msg_rebased", num_rebased)>> ELSE <<>>)
                     \o <<E("old_repo", tx.base), E("commit", new_id)>> IN
    IF ~rebase_ok
    THEN [err |-> internal_error("Merge failed", <<>>), new |-> <<>>,
          log |-> lg \o <<E("rebase_failed", 0)>>, update_wc |-> FALSE]
    ELSE IF ~report_ok
    THEN [err |-> report_error, new |-> <<NewOperation(tx)>>,
          log |-> committed \o <<E("report_failed", new_id)>>, update_wc |-> FALSE]
    ELSE [err |-> Ok, new |-> <<NewOperation(tx)>>,
          log |-> committed \o <<E("report", new_id)>>,
          update_wc |-> may_update_wc /\ tx.wc # NoCommit]

\* A variant of finish_transaction without the no-op check.
finish_transaction_unchecked(tx, may_update_wc, num_rebased, rebase_ok, report_ok) ==
    commit_transaction(tx, may_update_wc, num_rebased, rebase_ok, report_ok)

\* finish_transaction up to report_repo_changes: a transaction without
\* changes is not committed.
finish_transaction(tx, may_update_wc, num_rebased, rebase_ok, report_ok) ==
    IF ~tx.has_changes
    THEN [err |-> Ok, new |-> <<>>,
          log |-> <<E("has_changes", 0), E("msg_nothing_changed", 0)>>,
          update_wc |-> FALSE]
    ELSE commit_transaction(tx, may_update_wc, num_rebased, rebase_ok, report_ok)

\* The transactions a command can hand to finish_transaction: started at the
\* session's repo, changed to a view with working-copy commit new_wc or not
\* changed at all.
Transactions(repo_op) ==
    {start_repo_transaction(repo_op)}
    \cup {[start_repo_transaction(repo_op) EXCEPT !.wc = new_wc, !.has_changes = TRUE] :
            new_wc \in NewWcCommits}

\* The command of process p and its finish_transaction up to the change
\* report.
FinishTransaction(p) ==
    /\ pc[p] = "loaded"
    /\ UNCHANGED <<wc_record, wc_lock, report, alias>>
    /\ \E r \in {finish_transaction(tx, may_update[p], n, ok, report_ok) :
                    tx \in Transactions(repo[p]), n \in 0..MaxRebased, ok \in BOOLEAN,
                    report_ok \in BOOLEAN} :
          /\ Publish(r.new)
          /\ IF r.update_wc
             THEN /\ Goto(p, "committed", Len(ops) + 1)
                  /\ out' = Out(p, r.log, NoCheck, NoResult)
             ELSE /\ Return(p)
                  /\ out' = Out(p, r.log, NoCheck, r.err)

\* ----------------------------------------------------- update_working_copy
\* Workspace::check_out under the working-copy lock: refuse when the record's
\* tree is not the tree the caller expects, else check out and record.
check_out(record, op_id, old_tree_id, new_commit, checkout_ok) ==
    IF old_tree_id # 0 /\ old_tree_id # record.tree
    THEN [ok |-> FALSE, record |-> record]
    ELSE IF ~checkout_ok
    THEN [ok |-> FALSE, record |-> record]
    ELSE [ok |-> TRUE, record |-> [op |-> op_id, tree |-> new_commit.tree]]

\* A variant of update_working_copy that records the operation id before it
\* checks out.
update_working_copy_records_first(record, op_id, old_commit, new_commit, checkout_ok) ==
    LET old_tree_id == old_commit.tree
        recorded == [record EXCEPT !.op = op_id] IN
    IF new_commit.tree # old_tree_id
    THEN LET r == check_out(recorded, op_id, old_tree_id, new_commit, checkout_ok) IN
         [ok |-> r.ok, record |-> r.record, stats |-> r.ok, called |-> TRUE]
    ELSE [ok |-> TRUE, record |-> recorded, stats |-> FALSE, called |-> FALSE]

\* A variant of update_working_copy that records the operation the
\* transaction was based on when the tree did not change.
update_working_copy_at_base(record, op_id, old_commit, new_commit, checkout_ok) ==
    LET old_tree_id == old_commit.tree IN
    IF new_commit.tree # old_tree_id
    THEN LET r == check_out(record, op_id, old_tree_id, new_commit, checkout_ok) IN
         [ok |-> r.ok, record |-> r.record, stats |-> r.ok, called |-> TRUE]
    ELSE [ok |-> TRUE, record |-> [record EXCEPT !.op = ops[op_id].parents[1]],
          stats |-> FALSE, called |-> FALSE]

\* A variant of update_working_copy that compares the commits, not their
\* trees.
update_working_copy_by_commit(record, op_id, old_commit, new_commit, checkout_ok) ==
    LET old_tree_id == old_commit.tree IN
    IF new_commit # old_commit
    THEN LET r == check_out(record, op_id, old_tree_id, new_commit, checkout_ok) IN
         [ok |-> r.ok, record |-> r.record, stats |-> r.ok, called |-> TRUE]
    ELSE [ok |-> TRUE, record |-> [record EXCEPT !.op = op_id], stats |-> FALSE,
          called |-> FALSE]

\* update_working_copy (the free function): check out when the tree of the
\* working-copy commit changed, otherwise only record the new operation id.
\* old_commit is NoCommit for None.  called: Workspace::check_out was called.
update_working_copy(record, op_id, old_commit, new_commit, checkout_ok) ==
    LET old_tree_id == old_commit.tree IN
    IF new_commit.tree # old_tree_id
    THEN LET r == check_out(record, op_id, old_tree_id, new_commit, checkout_ok) IN
         [ok |-> r.ok, record |-> r.record, stats |-> r.ok, called |-> TRUE]
    ELSE [ok |-> TRUE, record |-> [record EXCEPT !.op = op_id], stats |-> FALSE,
          called |-> FALSE]

\* A variant of checkout_error that builds a UserError with a hint.
checkout_error_recoverable(new_commit) ==
    user_error_with_hint("Failed to check out commit",
                         "Run jj workspace update-stale to update it.", <<>>)

\* The error update_working_copy makes of a failed check_out.
checkout_error(new_commit) == internal_error("Failed to check out commit", <<>>)

\* Variant: the failure of the checkout is not returned.
helper_update_working_copy_swallows(record, op_id, maybe_old_commit, new_commit, checkout_ok) ==
    LET r == update_working_copy(record, op_id, maybe_old_commit, new_commit, checkout_ok) IN
    [err |-> Ok, record |-> r.record,
     log |-> <<E("old_commit", maybe_old_commit.id), E("old_tree", maybe_old_commit.tree),
               E("new_commit", new_commit.id), E("new_tree", new_commit.tree)>>
             \o (IF r.called THEN <<E("check_out", op_id)>> ELSE <<>>)
             \o (IF r.ok THEN <<E("wc_finish", op_id)>> ELSE <<E("check_out_failed", op_id)>>)]

\* WorkspaceCommandHelper::update_working_copy: the free function, then the
\* new working-copy commit and the checkout stats written to ui.  The log
\* starts with the two commits and their trees as given.
helper_update_working_copy(record, op_id, maybe_old_commit, new_commit, checkout_ok) ==
    LET r == update_working_copy(record, op_id, maybe_old_commit, new_commit, checkout_ok)
        lg == <<E("old_commit", maybe_old_commit.id), E("old_tree", maybe_old_commit.tree),
                E("new_commit", new_commit.id), E("new_tree", new_commit.tree)>>
              \o (IF r.called THEN <<E("check_out", op_id)>> ELSE <<>>)
    IN IF ~r.ok
       THEN [err |-> checkout_error(new_commit), record |-> r.record,
             log |-> lg \o <<E("check_out_failed", op_id)>>]
       ELSE [err |-> Ok, record |-> r.record,
             log |-> lg \o <<E("wc_finish", op_id)>>
                     \o (IF new_commit # maybe_old_commit
                         THEN <<E("msg_working_copy_now_at", new_commit.id)>>
                         ELSE <<>>)
                     \o (IF r.stats THEN <<E("msg_checkout_stats", new_commit.id)>> ELSE <<>>)]

\* The end of finish_transaction for a session that may update the working
\* copy: update_working_copy for the old and new working-copy commit.  It
\* takes the working-copy lock inside and so waits while the lock is held.
UpdateWorkingCopy(p) ==
    /\ pc[p] = "committed"
    /\ wc_lock = 0
    /\ UNCHANGED <<ops, op_heads, wc_lock, report, alias>>
    /\ Return(p)
    /\ \E r \in {helper_update_working_copy(wc_record, repo[p],
                                            View(ops[repo[p]].parents[1]),
                                            View(repo[p]), checkout_ok) :
                    checkout_ok \in BOOLEAN} :
          /\ wc_record' = r.record
          /\ out' = Out(p, r.log, NoCheck, r.err)

\* The commits update_working_copy can be given: several commits have the
\* same tree (a commit rewritten with another description, a new empty
\* commit on top).
UpdateCommits == {[id |-> i, tree |-> ((i - 1) % NumTrees) + 1] : i \in 1..(3 * NumTrees)}

\* update_working_copy of the helper alone, for every old and new
\* working-copy commit, on the working copy of a fresh workspace.
UpdateWorkingCopyAlone ==
    /\ out.proc = 0
    /\ UNCHANGED <<ops, op_heads, wc_lock, pc, may_update, repo, report, alias>>
    /\ \E maybe_old_commit \in UpdateCommits \cup {NoCommit}, new_commit \in UpdateCommits,
          op_id \in OpIds, checkout_ok \in BOOLEAN :
          LET r == helper_update_working_copy(wc_record, op_id, maybe_old_commit,
                                              new_commit, checkout_ok) IN
          /\ wc_record' = r.record
          /\ out' = Out(1, r.log, NoCheck, r.err)

\* report_repo_changes for the views before and after a transaction over a
\* commit graph.
ReportRepoChanges ==
    /\ report = NoReport
    /\ UNCHANGED <<ops, op_heads, wc_record, wc_lock, pc, may_update, repo, out, alias>>
    /\ \E g \in CommitGraphs :
       \E old_heads \in HeadSets(g), new_heads \in HeadSets(g) :
          report' = report_repo_changes(g, old_heads, new_heads)

\* ----------------------------------------------------------- specification
Next ==
    \E p \in Procs :
        \/ LoadWorkspace(p)
        \/ SnapshotLock(p)
        \/ SnapshotWorkingCopy(p)
        \/ CheckWorkingCopyWritable(p)
        \/ FinishTransaction(p)
        \/ UpdateWorkingCopy(p)

Spec == Init /\ [][Next]_vars

\* One process runs its commands one after the other.
SessionInit == Init /\ Cardinality(Running) = 1
SessionSpec == SessionInit /\ [][Next]_vars

\* The steps of processes that run side by side (check_working_copy_writable
\* writes nothing and is left to the single session).
ConcurrentNext ==
    \E p \in Procs :
        \/ LoadWorkspace(p)
        \/ SnapshotLock(p)
        \/ SnapshotWorkingCopy(p)
        \/ FinishTransaction(p)
        \/ UpdateWorkingCopy(p)

\* Two processes run commands side by side.
PairInit == Init /\ Cardinality(Running) = 2
PairSpec == PairInit /\ [][ConcurrentNext]_vars

\* start_working_copy_mutation of a helper on its own: any helper flags with
\* their global args, any working-copy commit or none in the view, any tree
\* in the working-copy state, the lock acquired or not.  The step ends with
\* the lock held when it returns Ok.
StartWorkingCopyMutationAlone ==
    /\ out.proc = 0
    /\ UNCHANGED <<ops, op_heads, wc_record, pc, may_update, repo, report, alias>>
    /\ \E may_update_wc \in BOOLEAN, wc_commit \in UpdateCommits \cup {NoCommit},
          old_tree_id \in Trees, lock_ok \in BOOLEAN :
       \E args \in HelperArgs(may_update_wc, 1) :
          LET r == start_working_copy_mutation(may_update_wc, args, wc_commit,
                                               old_tree_id, lock_ok)
          IN /\ wc_lock' = IF r.locked THEN 1 ELSE 0
             /\ out' = Out(1, <<E("start_working_copy_mutation", 0),
                                E("at_operation", args.at_operation),
                                E("ignore_working_copy",
                                  IF args.ignore_working_copy THEN 1 ELSE 0),
                                E("wc_commit", wc_commit.id),
                                E("wc_tree", wc_commit.tree),
                                E("old_tree_id", old_tree_id)>> \o r.log,
                         NoCheck, r.err)

MutationNext == StartWorkingCopyMutationAlone

MutationSpec == Init /\ [][MutationNext]_vars

\* Two processes loaded the repo at operation 1 and came to
\* snapshot_working_copy; process 1 took the lock first, snapshotted tree 2
\* and committed operation 2, which the working copy records.  Process 2 is
\* about to take the lock.
ChainInit ==
    /\ ops = <<[parents |-> <<>>, wc |-> Commit(1)], [parents |-> <<1>>, wc |-> Commit(2)]>>
    /\ op_heads = {2}
    /\ wc_record = [op |-> 2, tree |-> 2]
    /\ wc_lock = 0
    /\ pc = [p \in Procs |-> IF p = 1 THEN "loaded" ELSE IF p = 2 THEN "snapshot" ELSE "off"]
    /\ may_update = [p \in Procs |-> p \in {1, 2}]
    /\ repo = [p \in Procs |-> IF p = 1 THEN 2 ELSE IF p = 2 THEN 1 ELSE 0]
    /\ out = [proc |-> 1,
              log |-> <<E("check_stale", 1), E("snapshot", 2), E("rebase", 0),
                        E("commit", 2), E("wc_finish", 2)>>,
              chk |-> [res |-> Fresh, wc_op |-> 1, repo_op |-> 1, wc_tree |-> 1,
                       commit_tree |-> 1],
              result |-> NoResult,
              pre |-> [ops |-> <<[parents |-> <<>>, wc |-> Commit(1)]>>,
                       op_heads |-> {1},
                       wc_record |-> [op |-> 1, tree |-> 1],
                       wc_lock |-> 1,
                       pc |-> [p \in Procs |-> IF p = 1 THEN "locked"
                                               ELSE IF p = 2 THEN "snapshot" ELSE "off"],
                       may_update |-> [p \in Procs |-> p \in {1, 2}],
                       repo |-> [p \in Procs |-> IF p \in {1, 2} THEN 1 ELSE 0]]]
    /\ report = NoReport
    /\ alias = NoAlias

ChainSpec == ChainInit /\ [][ConcurrentNext]_vars

\* resolve_aliases on its own, as the loop is entered: any alias table merged
\* from the config, any arguments after the binary, nothing expanded yet.
AliasInit ==
    /\ ops = <<[parents |-> <<>>, wc |-> Commit(1)]>>
    /\ op_heads = {1}
    /\ wc_record = [op |-> 1, tree |-> 1]
    /\ wc_lock = 0
    /\ pc = [p \in Procs |-> "off"]
    /\ may_update = [p \in Procs |-> FALSE]
    /\ repo = [p \in Procs |-> 0]
    /\ out = Out(0, <<>>, NoCheck, NoResult)
    /\ report = NoReport
    /\ \E table \in AliasTables, args \in WordLists(MaxArgs) :
          alias = [defined |-> table, aliases_map |-> table,
                   string_args |-> <<Binary>> \o args,
                   resolved_aliases |-> {}, pc |-> "loop", result |-> NoResult]

\* The loop of resolve_aliases goes round once, or returns.
ResolveAliases ==
    /\ alias.pc = "loop"
    /\ alias' = resolve_aliases_iteration(alias)
    /\ UNCHANGED <<ops, op_heads, wc_record, wc_lock, pc, may_update, repo, out, report>>

AliasNext == ResolveAliases

\* The loop runs on until it returns.
AliasSpec == AliasInit /\ [][AliasNext]_vars /\ WF_vars(AliasNext)

\* --------------------------------------------------- handle_command_result
config_error(m) == [kind |-> "config", msg |-> m, hint |-> "", named |-> <<>>]
cli_error(m) == [kind |-> "cli", msg |-> m, hint |-> "", named |-> <<>>]
\* ClapCliError: msg holds the clap::error::ErrorKind.
clap_cli_error(k) == [kind |-> "clap", msg |-> k, hint |-> "", named |-> <<>>]
broken_pipe == [kind |-> "broken_pipe", msg |-> "", hint |-> "", named |-> <<>>]

\* The results of run_internal handed to handle_command_result.
CommandResults ==
    {Ok, broken_pipe, config_error("Invalid config"), cli_error("Invalid arguments"),
     user_error("Concurrent working copy operation. Try again."),
     user_error("Nothing checked out in this workspace"),
     user_error_with_hint("This command must be able to update the working copy.",
                          "Don't use --at-op.", <<>>),
     user_error_with_hint("This command must be able to update the working copy.",
                          "Don't use --ignore-working-copy.", <<>>),
     internal_error("Corrupt repository", <<>>),
     internal_error("Failed to access working copy state", <<>>)}
    \cup {clap_cli_error(k) : k \in {"DisplayHelp",
                                     "DisplayHelpOnMissingArgumentOrSubcommand",
                                     "DisplayVersion", "UnknownArgument"}}

\* print_error_sources: nothing without a source, one line for a single
\* source, a header and one numbered line per error of a longer chain.
print_error_sources(sources) ==
    IF sources = 0 THEN <<>>
    ELSE IF sources = 1 THEN <<E("write_caused_by", 1)>>
    ELSE <<E("write_caused_by", 0)>> \o [i \in 1..sources |-> E("write_source", i)]

\* A variant of command_result_plan that treats an internal error as a user
\* error with a hint.
command_result_plan_internal_as_user(result, sources) ==
    IF result.kind = "ok" THEN [todo |-> <<>>, code |-> 0]
    ELSE IF result.kind = "user"
    THEN [todo |-> <<E("write_error", 0)>> \o print_error_sources(sources)
                   \o (IF result.hint # "" THEN <<E("write_hint", 0)>> ELSE <<>>),
          code |-> 1]
    ELSE IF result.kind = "config"
    THEN [todo |-> <<E("write_error", 0), E("write_hint", 0)>>, code |-> 1]
    ELSE IF result.kind = "cli"
    THEN [todo |-> <<E("write_error", 0)>>, code |-> 2]
    ELSE IF result.kind = "clap"
    THEN [todo |-> (IF result.msg \in {"DisplayHelp",
                                       "DisplayHelpOnMissingArgumentOrSubcommand"}
                    THEN <<E("request_pager", 0)>> ELSE <<>>)
                   \o (IF result.msg \in {"DisplayHelp", "DisplayVersion"}
                       THEN <<E("write_stdout", 0)>> ELSE <<E("write_stderr", 0)>>),
          code |-> IF result.msg \in {"DisplayHelp", "DisplayVersion"} THEN 0 ELSE 2]
    ELSE IF result.kind = "broken_pipe"
    THEN [todo |-> <<>>, code |-> 3]
    ELSE [todo |-> <<E("write_error", 0)>> \o print_error_sources(sources)
                   \o <<E("write_hint", 0)>>,
          code |-> 1]

\* What handle_command_result sets out to do for a result, in order, and the
\* exit code it returns when all of it is done.
command_result_plan(result, sources) ==
    IF result.kind = "ok" THEN [todo |-> <<>>, code |-> 0]
    ELSE IF result.kind = "user"
    THEN [todo |-> <<E("write_error", 0)>> \o print_error_sources(sources)
                   \o (IF result.hint # "" THEN <<E("write_hint", 0)>> ELSE <<>>),
          code |-> 1]
    ELSE IF result.kind = "config"
    THEN [todo |-> <<E("write_error", 0), E("write_hint", 0)>>, code |-> 1]
    ELSE IF result.kind = "cli"
    THEN [todo |-> <<E("write_error", 0)>>, code |-> 2]
    ELSE IF result.kind = "clap"
    THEN [todo |-> (IF result.msg \in {"DisplayHelp",
                                       "DisplayHelpOnMissingArgumentOrSubcommand"}
                    THEN <<E("request_pager", 0)>> ELSE <<>>)
                   \o (IF result.msg \in {"DisplayHelp", "DisplayVersion"}
                       THEN <<E("write_stdout", 0)>> ELSE <<E("write_stderr", 0)>>),
          code |-> IF result.msg \in {"DisplayHelp", "DisplayVersion"} THEN 0 ELSE 2]
    ELSE IF result.kind = "broken_pipe"
    THEN [todo |-> <<>>, code |-> 3]
    ELSE [todo |-> <<E("write_error", 0)>> \o print_error_sources(sources),
          code |-> 255]

RECURSIVE TakeWrites(_, _, _)
\* The part of the plan that is done when ui takes `accepted` writes and
\* fails the next: the `?` after each write returns at the first failure.
TakeWrites(todo, i, accepted) ==
    IF i > Len(todo) THEN <<>>
    ELSE IF todo[i].ev = "request_pager"
    THEN <<todo[i]>> \o TakeWrites(todo, i + 1, accepted)
    ELSE IF accepted = 0 THEN <<>>
    ELSE <<todo[i]>> \o TakeWrites(todo, i + 1, accepted - 1)

\* handle_command_result: Ok(exit code) when every write succeeded, the io
\* error of the first write that failed otherwise.
handle_command_result(result, sources, accepted) ==
    LET plan == command_result_plan(result, sources)
        done == TakeWrites(plan.todo, 1, accepted)
    IN IF Len(done) = Len(plan.todo)
       THEN [log |-> done, io_error |-> FALSE, code |-> plan.code]
       ELSE [log |-> done, io_error |-> TRUE, code |-> 0]

\* CliRunner::run: the exit code of handle_command_result, or that of a
\* broken pipe when it returned an io error.
run_exit_code(r) == IF r.io_error THEN 3 ELSE r.code

\* The writes ui can take before one fails; the most any result needs means
\* none fails.
UiWrites == 0..(MaxSources + 3)

\* The end of a command: run hands the result of run_internal to
\* handle_command_result and exits with the code it gets.
HandleCommandResult ==
    /\ out.proc = 0
    /\ UNCHANGED <<ops, op_heads, wc_record, wc_lock, pc, may_update, repo, report, alias>>
    /\ \E result \in CommandResults, accepted \in UiWrites :
       \E sources \in IF result.kind \in {"user", "internal"}
                      THEN 0..MaxSources ELSE {0} :
          LET r == handle_command_result(result, sources, accepted)
          IN out' = Out(1, <<E("handle_command_result", 0), E("sources", sources),
                             E("accepted", accepted)>>
                           \o r.log
                           \o <<IF r.io_error THEN E("io_error", 0) ELSE E("exit", r.code),
                                E("process_exit", run_exit_code(r))>>,
                        NoCheck, result)

HandleNext == HandleCommandResult

HandleSpec == Init /\ [][HandleNext]_vars

\* A corrupt store: its operations are there, its op-head set is empty.  One
\* process runs commands on it.
CorruptInit ==
    /\ ops = <<[parents |-> <<>>, wc |-> Commit(1)]>>
    /\ op_heads = {}
    /\ wc_record = [op |-> 1, tree |-> 1]
    /\ wc_lock = 0
    /\ pc = [p \in Procs |-> IF p = 1 THEN "idle" ELSE "off"]
    /\ may_update = [p \in Procs |-> FALSE]
    /\ repo = [p \in Procs |-> 0]
    /\ out = Out(0, <<>>, NoCheck, NoResult)
    /\ report = NoReport
    /\ alias = NoAlias

CorruptSpec == CorruptInit /\ [][Next]_vars

\* The lists of parents the i-th operation of a store can have.
ParentLists(i) ==
    {<<>>} \cup {<<a>> : a \in 1..(i - 1)}
           \cup {ab \in (1..(i - 1)) \X (1..(i - 1)) : ab[1] # ab[2]}

\* The op stores of NumStoreOps operations, whether or not their operations
\* go back to one root.
OpStores ==
    {st \in [1..NumStoreOps -> [parents : UNION {ParentLists(i) : i \in 1..NumStoreOps},
                                wc : Commits]] :
        \A i \in 1..NumStoreOps : st[i].parents \in ParentLists(i)}

\* snapshot_working_copy alone: a command loaded the repo at any operation
\* of any such store and holds the working-copy lock; the working copy was
\* recorded at any operation of the store, with any tree.
SnapshotInit ==
    /\ ops \in OpStores
    /\ op_heads = {h \in OpIds : \A o \in OpIds : h \notin Range(ops[o].parents)}
    /\ wc_record \in [op : OpIds, tree : Trees]
    /\ wc_lock = 1
    /\ pc = [p \in Procs |-> IF p = 1 THEN "locked" ELSE "off"]
    /\ may_update = [p \in Procs |-> p = 1]
    /\ \E o \in OpIds : repo = [p \in Procs |-> IF p = 1 THEN o ELSE 0]
    /\ out = Out(0, <<>>, NoCheck, NoResult)
    /\ report = NoReport
    /\ alias = NoAlias

SnapshotNext == \E p \in Procs : SnapshotWorkingCopy(p)

SnapshotSpec == SnapshotInit /\ [][SnapshotNext]_vars

\* The change report alone, over every commit graph and pair of head sets.
ReportNext == ReportRepoChanges

ReportSpec == Init /\ [][ReportNext]_vars

\* update_working_copy alone, over every pair of commits.
UpdateNext == UpdateWorkingCopyAlone

UpdateSpec == Init /\ [][UpdateNext]_vars

\* ------------------------------------------------------------- properties
RECURSIVE IsAncestor(_, _)
\* a is b or an ancestor of b.
IsAncestor(a, b) ==
    \/ a = b
    \/ \E i \in DOMAIN ops[b].parents : IsAncestor(a, ops[b].parents[i])

RECURSIVE IsAncestorIn(_, _, _)
\* a is b or an ancestor of b in the store st.
IsAncestorIn(st, a, b) ==
    \/ a = b
    \/ \E i \in DOMAIN st[b].parents : IsAncestorIn(st, a, st[b].parents[i])

\* The DAG relationship of two operations.
Relationship(wc_op, repo_op) ==
    IF wc_op = repo_op THEN "equal"
    ELSE IF IsAncestor(wc_op, repo_op) THEN "wc_behind"
    ELSE IF IsAncestor(repo_op, wc_op) THEN "wc_ahead"
    ELSE "divergent"

\* The events of a log.
Events(lg) == {lg[i].ev : i \in DOMAIN lg}
\* The latest step resolved "@" (it read the op heads) and gave an operation.
ResolvedAtHead(o) ==
    /\ o.log # <<>>
    /\ o.log[1].ev = "get_op_heads"
    /\ o.result = NoResult
\* The latest step called check_stale_working_copy.
Checked == out.chk.res.state # "none"
TreesDiffer(k) == k.wc_tree # k.commit_tree

\* C1: resolving "@" over N >= 2 heads yields exactly one new operation whose
\* parents are the N heads, each once, in whatever order the store lists
\* them; it is the session's operation and the only head left.
C1_MergeParentsAreTheHeads ==
       (Cardinality(Pre.op_heads) >= 2 /\ ResolvedAtHead(out))
       => /\ Len(ops) = Len(Pre.ops) + 1
          /\ Len(ops[Len(ops)].parents) = Cardinality(Pre.op_heads)
          /\ Range(ops[Len(ops)].parents) = Pre.op_heads
          /\ repo[out.proc] = Len(ops)
          /\ op_heads = {Len(ops)}

\* Three heads were merged, and the head listed first was not the oldest.
C1_Witness ==
    /\ ResolvedAtHead(out)
    /\ out.log[1].n = 3
    /\ Len(ops[Len(ops)].parents) = 3
    /\ out.log[3].ev = "load_at"
    /\ \E h \in Range(ops[Len(ops)].parents) : h < out.log[3].n

\* C2: resolving "@" over exactly one head returns that head and does nothing
\* else: no transaction, merge, rebase or write, the store is as it was.
C2_SingleHeadUnchanged ==
       (/\ Cardinality(Pre.op_heads) = 1
        /\ out.log # <<>>
        /\ out.log[1].ev = "get_op_heads")
       => /\ out.log = <<E("get_op_heads", 1)>>
          /\ out.result = NoResult
          /\ Pre.op_heads = {repo[out.proc]}
          /\ (ops = Pre.ops /\ op_heads = Pre.op_heads /\ wc_record = Pre.wc_record)

\* A single head that is not the root operation was resolved.
C2_Witness ==
    /\ out.log = <<E("get_op_heads", 1)>>
    /\ Len(ops) > 1
    /\ op_heads = {repo[out.proc]}

C4_Original ==
    Checked =>
       \A q \in Procs :
          (/\ pc[q] = "snapshot"
           /\ View(repo[q]) # NoCommit
           /\ Relationship(wc_record.op, repo[q])
                 = Relationship(out.chk.wc_op, out.chk.repo_op))
          => check_stale_working_copy(wc_record.tree, wc_record.op,
                                      View(repo[q]), repo[q]).state = out.chk.res.state

\* C4: check_stale_working_copy returns one of the four states.  It is Fresh
\* exactly when the tree ids are equal, whatever the relationship; with
\* differing trees it is Updated only when the repo's operation is the
\* working copy's or an ancestor of it (always when they are equal),
\* WorkingCopyStale only when the working copy's operation is a proper
\* ancestor of the repo's, and SiblingOperation whenever the two diverge.
C4_Classification ==
    Checked =>
       LET k == out.chk
           s == k.res.state
           rel == Relationship(k.wc_op, k.repo_op)
       IN /\ s \in {"Fresh", "Updated", "WorkingCopyStale", "SiblingOperation"}
          /\ (s = "Fresh") <=> ~TreesDiffer(k)
          /\ s = "Updated" => rel \in {"equal", "wc_ahead"}
          /\ s = "WorkingCopyStale" => rel = "wc_behind"
          /\ (TreesDiffer(k) /\ rel = "divergent") => s = "SiblingOperation"
          /\ (TreesDiffer(k) /\ rel = "equal") => s = "Updated"

\* A working copy behind the repo, with another tree, was classified stale.
C4_Witness ==
    /\ Checked
    /\ TreesDiffer(out.chk)
    /\ Relationship(out.chk.wc_op, out.chk.repo_op) = "wc_behind"
    /\ out.chk.res = WorkingCopyStale

\* C5: the result is Fresh exactly when the recorded tree id is the tree id
\* of the working-copy commit of the loaded view; then no operation is read
\* and the repo is not reloaded, whatever operation the record names.
C5_FreshIffTreesEqual ==
    Checked =>
       /\ (out.chk.res = Fresh) <=> (out.chk.wc_tree = out.chk.commit_tree)
       /\ out.chk.res = Fresh =>
             /\ "read_operation" \notin Events(out.log)
             /\ "reload_at" \notin Events(out.log)
             /\ out.log[1] = E("check_stale", out.chk.repo_op)
             /\ out.log[2].ev = "snapshot"

\* A working copy recorded at another operation than the repo's was Fresh.
C5_Witness ==
    /\ Checked
    /\ out.chk.res = Fresh
    /\ out.chk.wc_op # out.chk.repo_op

\* C6 as stated: a working copy recorded at a proper ancestor of the repo's
\* operation, with another tree, is WorkingCopyStale and the snapshot fails
\* with a user error carrying the update-stale hint, before any snapshot.
C6_Original ==
    (/\ Checked
     /\ TreesDiffer(out.chk)
     /\ Relationship(out.chk.wc_op, out.chk.repo_op) = "wc_behind")
    => /\ out.chk.res = WorkingCopyStale
       /\ out.result.kind = "user"
       /\ out.result.hint = "Run jj workspace update-stale to update it."
       /\ Events(out.log) \cap {"snapshot", "commit", "wc_finish"} = {}

\* C7: with differing trees and a closest common ancestor that is neither
\* operation, the result is SiblingOperation and snapshot_working_copy
\* returns an internal error naming the repo's and the working copy's
\* operation, with no reload, snapshot, commit or write of the record.
C7_SiblingIsInternalError ==
       (/\ out.chk.res.state # "none"
        /\ TreesDiffer(out.chk)
        /\ closest_common_node(<<out.chk.wc_op>>, <<out.chk.repo_op>>)
              \notin {out.chk.wc_op, out.chk.repo_op})
       => /\ out.chk.res = SiblingOperation
          /\ out.result.kind = "internal"
          /\ out.result.hint = ""
          /\ out.result.named = <<out.chk.repo_op, out.chk.wc_op>>
          /\ Events(out.log) \cap {"reload_at", "snapshot", "commit", "wc_finish"} = {}
          /\ (ops = Pre.ops /\ op_heads = Pre.op_heads /\ wc_record = Pre.wc_record)

\* A snapshot failed on a working copy recorded at a sibling of the repo's
\* operation.
C7_Witness ==
    /\ Checked
    /\ out.chk.res = SiblingOperation
    /\ Relationship(out.chk.wc_op, out.chk.repo_op) = "divergent"
    /\ out.result.kind = "internal"

C9_Original ==
    (Checked /\ out.chk.res.state = "Updated" /\ "snapshot" \in Events(out.log))
    => \E i, j, k \in DOMAIN out.log :
          /\ i < j /\ j < k
          /\ out.log[i].ev = "reload_at"
          /\ out.log[j].ev = "check_stale"
          /\ out.log[k].ev = "snapshot"

\* C9: on Updated the repo is reloaded at the recorded operation and the
\* files are snapshotted against the reloaded working-copy commit after one
\* staleness check, the one that gave Updated: the session ends at the
\* recorded operation or at a new child of it, and the record names it.
C9_ReloadThenSnapshot ==
    (Checked /\ out.chk.res.state = "Updated")
    => /\ out.log[1] = E("check_stale", out.chk.repo_op)
       /\ out.log[2] = E("read_operation", out.chk.wc_op)
       /\ out.log[3] = E("reload_at", out.chk.wc_op)
       /\ out.log[4].ev = "snapshot"
       /\ \A i \in DOMAIN out.log : i > 1 => out.log[i].ev # "check_stale"
       /\ \/ repo[out.proc] = out.chk.wc_op
          \/ /\ repo[out.proc] = Len(ops)
             /\ ops[Len(ops)].parents = <<out.chk.wc_op>>
       /\ wc_record.op = repo[out.proc]

\* After Updated the snapshot was committed on top of the recorded operation,
\* which is not the operation the session had loaded.
C9_Witness ==
    /\ Checked
    /\ out.chk.res.state = "Updated"
    /\ out.chk.wc_op # out.chk.repo_op
    /\ "commit" \in Events(out.log)
    /\ ops[Len(ops)].parents = <<out.chk.wc_op>>

\* C10: finish_transaction on a transaction without changes writes "Nothing
\* changed.", returns Ok and does nothing else: no rebase, commit, report or
\* working-copy update, the op heads, the operations and the record are as
\* they were; a transaction with changes never writes that message.
C10_NothingChanged ==
       (out.log # <<>> /\ out.log[1].ev = "has_changes")
       => IF out.log[1].n = 0
          THEN /\ out.log = <<E("has_changes", 0), E("msg_nothing_changed", 0)>>
               /\ out.result = Ok
               /\ pc[out.proc] = "idle"
               /\ (ops = Pre.ops /\ op_heads = Pre.op_heads /\ wc_record = Pre.wc_record /\ wc_lock = Pre.wc_lock)
          ELSE "msg_nothing_changed" \notin Events(out.log)

\* A transaction without changes was finished on a repo with several
\* operations.
C10_Witness ==
    /\ out.log = <<E("has_changes", 0), E("msg_nothing_changed", 0)>>
    /\ out.result = Ok
    /\ Len(ops) > 1

\* A report_repo_changes over a commit graph was made.
Reported == report # NoReport
\* Commit k is visible in the old view, in the new view.
InOld(k) == \E h \in report.old_heads : k \in AncestorsOf(report.commits, h)
InNew(k) == \E h \in report.new_heads : k \in AncestorsOf(report.commits, h)
\* Commit k is conflicted and changes files: the conflicts the report counts.
Counted(k) == report.commits[k].has_conflict /\ ~report.commits[k].is_empty
\* Change id c has a counted commit that left the view, that entered it.
Gone(c) ==
    \E k \in CommitIds :
        InOld(k) /\ ~InNew(k) /\ Counted(k) /\ report.commits[k].change_id = c
Came(c) ==
    \E k \in CommitIds :
        InNew(k) /\ ~InOld(k) /\ Counted(k) /\ report.commits[k].change_id = c

\* C11: for every pair of head sets and every change id c, c is listed in at
\* most one of resolved and new, and in neither when it has conflicted
\* commits both among the removed and among the added commits, or in neither
\* of them.
C11_ConflictDeltaPartition ==
    Reported =>
       \A c \in ChangeIds :
          /\ ~(c \in DOMAIN report.resolved /\ c \in DOMAIN report.new)
          /\ (Gone(c) <=> Came(c))
                => (c \notin DOMAIN report.resolved /\ c \notin DOMAIN report.new)

\* One change id lost a conflicted commit and gained another and is listed
\* nowhere, while another change id is listed as resolved.
C11_Witness ==
    /\ Reported
    /\ \E c, d \in ChangeIds :
          /\ Gone(c) /\ Came(c)
          /\ c \notin DOMAIN report.resolved /\ c \notin DOMAIN report.new
          /\ d \in DOMAIN report.resolved

\* An old head k with change id x was rewritten: it left the view and a
\* commit without conflicts of the same change id entered it.
Rewritten(k, x) ==
    /\ k \in report.old_heads
    /\ report.commits[k].change_id = x
    /\ ~InNew(k)
    /\ \E n \in CommitIds :
          /\ InNew(n) /\ ~InOld(n)
          /\ ~report.commits[n].has_conflict
          /\ report.commits[n].change_id = x

\* C12 as stated: a conflicted old head with change id X rewritten to a
\* commit without conflicts makes X resolved when no conflicted commit of X
\* was added, and leaves X out of both lists when one was.
C12_Original ==
    Reported =>
       \A k \in CommitIds, x \in ChangeIds :
          (Rewritten(k, x) /\ report.commits[k].has_conflict)
          => IF Came(x)
             THEN x \notin DOMAIN report.resolved /\ x \notin DOMAIN report.new
             ELSE x \in DOMAIN report.resolved

\* C12: a conflicted old head with change id X that changes files, rewritten
\* to a commit without conflicts, makes X resolved when no conflicted commit
\* of X that changes files was added, and leaves X out of both lists when
\* one was.
C12_ResolvedConflict ==
    Reported =>
       \A k \in CommitIds, x \in ChangeIds :
          (Rewritten(k, x) /\ Counted(k))
          => IF Came(x)
             THEN x \notin DOMAIN report.resolved /\ x \notin DOMAIN report.new
             ELSE x \in DOMAIN report.resolved /\ x \notin DOMAIN report.new

\* A conflicted head that changes files was rewritten without conflicts on
\* top of a conflicted parent that stays, and its change id is listed as
\* resolved.
C12_Witness ==
    /\ Reported
    /\ \E k \in CommitIds, x \in ChangeIds :
          /\ Rewritten(k, x) /\ Counted(k)
          /\ x \in DOMAIN report.resolved
          /\ \E q \in report.commits[k].parents :
                Counted(q) /\ InNew(q) /\ report.commits[q].change_id # x

\* The latest step was update_working_copy of the helper; the trees it was
\* given, and what came of the checkout.
Updating(o) == o.log # <<>> /\ o.log[1].ev = "old_commit"
OldTree(o) == o.log[2].n
NewTree(o) == o.log[4].n
CheckoutCalled(o) == "check_out" \in Events(o.log)
CheckoutFailed(o) == "check_out_failed" \in Events(o.log)

\* C13 as stated: update_working_copy writes the record only after a
\* checkout that succeeded.
C13_Original ==
    [][(Updating(out') /\ wc_record' # wc_record)
       => (CheckoutCalled(out') /\ ~CheckoutFailed(out'))]_vars

\* C13: a failed checkout leaves the record as it was; when the tree of the
\* working-copy commit changed, the record is set to the new operation id
\* and tree id only after the checkout succeeded; when the tree is the same
\* no checkout is made and the new operation id alone is recorded.
C13_RecordAfterCheckout ==
       Updating(out)
       => LET op_id == Pre.repo[out.proc] IN
          /\ CheckoutFailed(out) => wc_record = Pre.wc_record
          /\ wc_record.tree # Pre.wc_record.tree
                => (CheckoutCalled(out) /\ ~CheckoutFailed(out))
          /\ (CheckoutCalled(out) /\ ~CheckoutFailed(out))
                => wc_record = [op |-> op_id, tree |-> NewTree(out)]
          /\ ~CheckoutCalled(out)
                => /\ OldTree(out) = NewTree(out)
                   /\ wc_record = [Pre.wc_record EXCEPT !.op = op_id]

\* After a commit that changed the tree of the working-copy commit, the
\* checkout succeeded and the record names the new operation and tree.
C13_Witness ==
    /\ Updating(out)
    /\ CheckoutCalled(out) /\ ~CheckoutFailed(out)
    /\ OldTree(out) # NewTree(out)
    /\ wc_record = [op |-> Len(ops), tree |-> NewTree(out)]
    /\ Len(ops) > 1

\* C14: when the checkout fails after the commit, the step rolls nothing
\* back: the session's repo is the operation it committed, which stays in
\* the store, the op heads and the record are as they were, and the failure
\* is returned.
C14_CheckoutFailureKeepsCommit ==
       (Updating(out) /\ CheckoutFailed(out))
       => LET p == out.proc IN
          /\ Pre.pc[p] = "committed"
          /\ Pre.repo[p] \in PreOpIds
          /\ Pre.repo[p] > 1
          /\ (ops = Pre.ops /\ op_heads = Pre.op_heads /\ wc_record = Pre.wc_record)
          /\ out.result.kind \in {"user", "internal"}
          /\ pc[p] = "idle"
          /\ Cardinality(Running) = 1
                => /\ op_heads = {Pre.repo[p]}
                   /\ wc_record.op = Pre.ops[Pre.repo[p]].parents[1]

\* A checkout failed after a commit: the committed operation is the only
\* head and the record names its parent.
C14_Witness ==
    /\ Updating(out)
    /\ CheckoutFailed(out)
    /\ op_heads = {Len(ops)}
    /\ ops[Len(ops)].parents = <<wc_record.op>>
    /\ out.result.kind = "internal"

Finishing(o) == o.log # <<>> /\ o.log[1].ev = "has_changes"
Resolving(o) == o.log # <<>> /\ o.log[1].ev = "get_op_heads"
Failed(o) == o.result.kind \in {"user", "internal"}

\* C16: a finish_transaction whose descendant rebase fails, and a resolution
\* of the op heads whose merge or rebase fails, write nothing: the
\* operations, the op heads and the working-copy record are as before, no
\* commit, write or publication is in the step, and the error is returned.
\* A step that publishes an operation fails only later, in the change
\* report that follows the commit.
C16_FailureAborts ==
       /\ ((Finishing(out) \/ Resolving(out)) /\ Failed(out)
            /\ "report_failed" \notin Events(out.log))
            => /\ (ops = Pre.ops /\ op_heads = Pre.op_heads /\ wc_record = Pre.wc_record /\ wc_lock = Pre.wc_lock)
               /\ Events(out.log) \cap {"commit", "write", "update_op_heads", "report"} = {}
               /\ out.result.kind = "internal"
               /\ pc[out.proc] = "idle"
               /\ repo[out.proc] = 0
       /\ ((Finishing(out) \/ Resolving(out)) /\ ops # Pre.ops /\ Failed(out))
            => /\ Finishing(out)
               /\ out.log[Len(out.log)] = E("report_failed", Len(ops))
               /\ E("commit", Len(ops)) \in Range(out.log)

\* A finish_transaction failed in rebase_descendants after earlier commits
\* and the command returned the error.
C16_Witness ==
    /\ Finishing(out)
    /\ "rebase_failed" \in Events(out.log)
    /\ out.result.kind = "internal"
    /\ Len(ops) > 1
    /\ pc[out.proc] = "idle"

\* The latest step was check_working_copy_writable of a helper built with
\* the logged --at-operation and --ignore-working-copy.
CheckingWritable(o) ==
    Len(o.log) = 3 /\ o.log[3].ev = "check_working_copy_writable"

\* C17: a helper may update the working copy exactly when it was built for
\* "@" without --ignore-working-copy.  Only such a session goes on to the
\* snapshot, takes the working-copy lock or reaches update_working_copy;
\* check_working_copy_writable is Ok for it and for any other session a user
\* error with the hint that names the flag given; no step of a session that
\* may not update changes the record or the lock, and its committing
\* finish_transaction appends and publishes the operation and returns Ok,
\* or the error of a failed change report.
C17_MayUpdateWorkingCopy ==
       \A p \in Procs :
        /\ (Pre.pc[p] = "idle" /\ pc[p] \notin {"idle", "off"})
             => /\ pc[p] = (IF may_update[p] THEN "snapshot" ELSE "loaded")
                /\ may_update[p] => Resolving(out)
        /\ pc[p] \in {"snapshot", "locked", "committed"} => may_update[p]
        /\ wc_lock = p => may_update[p]
        /\ (out.proc = p /\ CheckingWritable(out))
             => LET at == out.log[1].n
                    ign == out.log[2].n = 1
                IN /\ Pre.may_update[p] <=> (at = AtHead /\ ~ign)
                   /\ out.result = Ok <=> Pre.may_update[p]
                   /\ ~Pre.may_update[p]
                        => /\ out.result.kind = "user"
                           /\ out.result.hint = (IF ign THEN "Don't use --ignore-working-copy."
                                                   ELSE "Don't use --at-op.")
                           /\ pc[p] = "idle"
                   /\ (ops = Pre.ops /\ op_heads = Pre.op_heads /\ wc_record = Pre.wc_record /\ wc_lock = Pre.wc_lock)
        /\ (out.proc = p /\ Pre.pc[p] # "idle" /\ ~Pre.may_update[p])
             => (wc_record = Pre.wc_record /\ wc_lock = Pre.wc_lock)
        /\ (out.proc = p /\ Finishing(out) /\ ~Pre.may_update[p]
              /\ "commit" \in Events(out.log))
             => /\ ops # Pre.ops
                /\ Len(ops) \in op_heads
                /\ E("commit", Len(ops)) \in Range(out.log)
                /\ Events(out.log) \cap {"check_out", "wc_finish"} = {}
                /\ out.result = (IF "report_failed" \in Events(out.log)
                                  THEN report_error ELSE Ok)
                /\ pc[p] = "idle"

\* A session that may not update the working copy committed an operation:
\* it is the head, the command returned Ok and the record names an older
\* operation.
C17_Witness ==
    /\ Finishing(out)
    /\ E("commit", Len(ops)) \in Range(out.log)
    /\ out.result = Ok
    /\ pc[out.proc] = "idle"
    /\ op_heads = {Len(ops)}
    /\ wc_record.op < Len(ops)

\* The commits update_working_copy of the helper was given.
OldCommitId(o) == o.log[1].n
NewCommitId(o) == o.log[3].n

\* C18 as stated: the checkout is invoked exactly when the old and the new
\* working-copy commit differ.
C18_Original ==
    Updating(out) => (CheckoutCalled(out) <=> OldCommitId(out) # NewCommitId(out))

\* C18: the checkout is invoked exactly when the tree of the new
\* working-copy commit differs from the tree of the old one (or there was no
\* old one); it is not invoked for the same commit, nor for another commit
\* with the same tree.
C18_CheckoutIffTreeDiffers ==
    Updating(out)
        => /\ CheckoutCalled(out) <=> OldTree(out) # NewTree(out)
           /\ OldCommitId(out) = NewCommitId(out) => ~CheckoutCalled(out)
           /\ OldCommitId(out) = 0 => CheckoutCalled(out)

\* The working-copy commit was rewritten to a commit with the same tree: no
\* checkout was made, the new commit was written to ui and Ok returned.
C18_Witness ==
    /\ Updating(out)
    /\ OldCommitId(out) # NewCommitId(out)
    /\ OldTree(out) = NewTree(out)
    /\ ~CheckoutCalled(out)
    /\ "msg_working_copy_now_at" \in Events(out.log)
    /\ out.result = Ok

\* C19 as stated: the working copy is reconciled before the changes are
\* reported, so once a step has reported, no update of the working copy is
\* still to come in that finish_transaction.
C19_Original ==
    "report" \in Events(out.log) => pc[out.proc] # "committed"

\* C19: within one finish_transaction the changes are reported before the
\* working copy is reconciled: the step that brings a session to
\* update_working_copy ends with the report on the operation just committed
\* and has not touched the working copy, and update_working_copy runs only
\* from there and reports nothing.
C19_ReportBeforeUpdate ==
       \A p \in Procs :
        /\ (Pre.pc[p] # "committed" /\ pc[p] = "committed")
             => /\ out.proc = p
                /\ Finishing(out)
                /\ out.log[Len(out.log)] = E("report", repo[p])
                /\ Events(out.log) \cap {"check_out", "check_out_failed", "wc_finish",
                                           "old_commit"} = {}
                /\ (wc_record = Pre.wc_record /\ wc_lock = Pre.wc_lock)
        /\ (out.proc = p /\ Updating(out))
             => /\ Pre.pc[p] = "committed"
                /\ "report" \notin Events(out.log)
                /\ (ops = Pre.ops /\ op_heads = Pre.op_heads)

\* The changes of the committed operation are reported while the update of
\* the working copy to it is still to come.
C19_Witness ==
    /\ Finishing(out)
    /\ out.log[Len(out.log)] = E("report", Len(ops))
    /\ pc[out.proc] = "committed"
    /\ repo[out.proc] = Len(ops)
    /\ wc_record.op # Len(ops)

\* C20: the change report is made in the step that committed, after the
\* commit, on the new operation against the repo the transaction started
\* from (the parent of the new operation), and before anything is done to
\* the working copy, which a session that may update it updates afterwards.
C20_ReportOnCommitted ==
       ("report" \in Events(out.log))
       => LET p == out.proc
              n == Len(out.log)
              new_id == Len(ops)
          IN /\ Finishing(out)
             /\ Pre.pc[p] = "loaded"
             /\ Len(ops) = Len(Pre.ops) + 1
             /\ n >= 3
             /\ out.log[n - 2] = E("old_repo", Pre.repo[p])
             /\ out.log[n - 1] = E("commit", new_id)
             /\ out.log[n] = E("report", new_id)
             /\ ops[new_id].parents = <<Pre.repo[p]>>
             /\ new_id \in op_heads
             /\ (wc_record = Pre.wc_record /\ wc_lock = Pre.wc_lock)
             /\ pc[p] = (IF Pre.may_update[p] THEN "committed" ELSE "idle")
             /\ pc[p] = "committed" => repo[p] = new_id

\* A report on an operation committed on a repo that was no longer the
\* latest operation: the old repo is older than the operation before.
C20_Witness ==
    /\ Finishing(out)
    /\ Len(out.log) >= 3
    /\ out.log[Len(out.log)] = E("report", Len(ops))
    /\ out.log[Len(out.log) - 2].ev = "old_repo"
    /\ out.log[Len(out.log) - 2].n < Len(ops) - 1
    /\ ops[Len(ops)].parents = <<out.log[Len(out.log) - 2].n>>

\* The latest step resolved an explicit operation reference.
ResolvingExplicit(o) == o.log # <<>> /\ o.log[1].ev = "resolve_op_for_load"

\* C21: an explicit operation reference is resolved by one lookup: the step
\* makes no merge, writes and publishes no operation whatever the number of
\* heads, loads the repo at the operation named, and fails with a user error
\* (the resolution error) when the reference names no operation.
C21_ExplicitLookupOnly ==
       ResolvingExplicit(out)
       => LET p == out.proc
              at == out.log[1].n
          IN /\ out.log = <<E("resolve_op_for_load", at)>>
             /\ at # AtHead
             /\ (ops = Pre.ops /\ op_heads = Pre.op_heads /\ wc_record = Pre.wc_record /\ wc_lock = Pre.wc_lock)
             /\ at \in PreOpIds
                  => /\ out.result = NoResult
                     /\ repo[p] = at
                     /\ ~may_update[p]
                     /\ pc[p] = "loaded"
             /\ at \notin PreOpIds
                  => /\ out.result = user_error("No operation ID matching")
                     /\ pc[p] = "idle"
                     /\ repo[p] = 0

\* An explicit reference to an operation that is no head was resolved while
\* the store held several heads; they are all still there.
C21_Witness ==
    /\ ResolvingExplicit(out)
    /\ Cardinality(op_heads) >= 2
    /\ out.result = NoResult
    /\ repo[out.proc] = out.log[1].n
    /\ repo[out.proc] \notin op_heads

\* C22: resolving "@" on a store without op heads fails with the internal
\* error "Corrupt repository", which carries no hint; the step creates and
\* publishes no operation and the command is over.
C22_NoHeadsIsInternalError ==
       (Resolving(out) /\ Pre.op_heads = {})
       => /\ out.log = <<E("get_op_heads", 0)>>
          /\ out.result = internal_error("Corrupt repository", <<>>)
          /\ out.result.kind # "user"
          /\ out.result.hint = ""
          /\ (ops = Pre.ops /\ op_heads = Pre.op_heads /\ wc_record = Pre.wc_record /\ wc_lock = Pre.wc_lock)
          /\ pc[out.proc] = "idle"
          /\ repo[out.proc] = 0

\* A command resolved "@" on the store without heads and returned the
\* internal error.
C22_Witness ==
    /\ Resolving(out)
    /\ op_heads = {}
    /\ out.result.kind = "internal"
    /\ out.result.msg = "Corrupt repository"
    /\ Len(ops) = 1

\* The positions of the event ev in a log.
Positions(lg, ev) == {i \in DOMAIN lg : lg[i].ev = ev}

\* C23 as stated: every merge step of a resolution yields a report of its
\* rebase count.
C23_Original ==
    Resolving(out)
        => Cardinality(Positions(out.log, "msg_rebased"))
             = Cardinality(Positions(out.log, "rebase"))

\* C23: in a resolution of the op heads, every merge step that rebased
\* commits writes its count to ui right after the rebase, and a step that
\* rebased nothing writes nothing; a resolution that merged N heads made
\* N-1 rebase passes, and no count is written that no pass returned.
C23_RebaseCountsReported ==
    Resolving(out)
        => /\ \A i \in Positions(out.log, "rebase") :
                IF out.log[i].n > 0
                THEN i < Len(out.log) /\ out.log[i + 1] = E("msg_rebased", out.log[i].n)
                ELSE i = Len(out.log) \/ out.log[i + 1].ev # "msg_rebased"
           /\ \A i \in Positions(out.log, "msg_rebased") :
                i > 1 /\ out.log[i - 1] = E("rebase", out.log[i].n)
           /\ "update_op_heads" \in Events(out.log)
                => Cardinality(Positions(out.log, "rebase"))
                     = Len(ops[Len(ops)].parents) - 1

\* Three heads were resolved: the one merge step rebased commits and wrote
\* its count, the other rebased none and wrote nothing.
C23_Witness ==
    /\ Resolving(out)
    /\ "update_op_heads" \in Events(out.log)
    /\ Len(ops[Len(ops)].parents) = 3
    /\ Cardinality(Positions(out.log, "rebase")) = 2
    /\ Cardinality(Positions(out.log, "msg_rebased")) = 1

\* C24: a committed operation is visible to every head-set read from the
\* state its commit leaves: the operation a step committed or published is
\* an op head when the step is over, every operation of the store is an op
\* head or an ancestor of one, and the operation a resolution of "@" gives
\* is the only head and has every operation of the store behind it.
C24_CommitVisible ==
    /\ \A i \in DOMAIN out.log :
          out.log[i].ev \in {"commit", "update_op_heads"}
            => out.log[i].n = Len(ops) /\ Len(ops) \in op_heads
    /\ \A o \in OpIds : \E h \in op_heads : IsAncestor(o, h)
    /\ ResolvedAtHead(out)
          => /\ op_heads = {repo[out.proc]}
             /\ \A o \in OpIds : IsAncestor(o, repo[out.proc])

\* Process 2 committed an operation and has yet to update the working copy;
\* process 1 then read the op heads and loaded that very operation.
C24_Witness ==
    /\ ResolvedAtHead(out)
    /\ out.proc = 1
    /\ pc[2] = "committed"
    /\ repo[1] = repo[2]
    /\ repo[1] = Len(ops)

\* The processes inside the locked section of snapshot_working_copy.
Locked == {p \in Procs : pc[p] = "locked"}

StartingMutation(o) == o.log # <<>> /\ o.log[1].ev = "start_working_copy_mutation"
LockAcquired(o) == "lock" \in Events(o.log)
LockRefused(o) == "lock_failed" \in Events(o.log)
ConcurrentOperation == user_error("Concurrent working copy operation. Try again.")

C27_RecordBehindHeads ==
    /\ wc_record.op \in OpIds
    /\ \E h \in op_heads : IsAncestor(wc_record.op, h)

\* Two heads: the record names the one a snapshot of the working copy
\* committed, the other is the operation of a concurrent command.
C27_Witness ==
    /\ Cardinality(op_heads) = 2
    /\ wc_record.op \in op_heads
    /\ wc_record.op > 1
    /\ E("wc_finish", wc_record.op) \in Range(out.log)
    /\ Checked

\* The operations a resolution based its transaction on and merged, in order.
BaseAndMerged(lg) ==
    LET sel == SelectSeq(lg, LAMBDA e : e.ev \in {"start_tx", "merge"})
    IN [i \in DOMAIN sel |-> sel[i].n]
\* The repo a snapshot_working_copy step had when it started its
\* transaction: the one it reloaded, or else the one process p came with.
SnapshotBase(lg, p) ==
    IF "reload_at" \in Events(lg)
    THEN lg[CHOOSE i \in DOMAIN lg : lg[i].ev = "reload_at"].n
    ELSE Pre.repo[p]

\* C28: every step that writes an operation appends exactly one, whose
\* parents are the base of its transaction and the operations merged into
\* it: the session's repo alone for finish_transaction and for the commit
\* of a snapshot, and for a resolution the first listed head followed by
\* every other head in the order merged, each head once.
C28_ParentsAreBaseAndMerged ==
       ops # Pre.ops
       => LET new == ops[Len(ops)]
              p == out.proc
          IN /\ Len(ops) = Len(Pre.ops) + 1
             /\ SubSeq(ops, 1, Len(Pre.ops)) = Pre.ops
             /\ Finishing(out) \/ Resolving(out) \/ out.chk # NoCheck
             /\ Finishing(out) => new.parents = <<Pre.repo[p]>>
             /\ out.chk # NoCheck => new.parents = <<SnapshotBase(out.log, p)>>
             /\ Resolving(out)
                  => /\ new.parents = BaseAndMerged(out.log)
                     /\ Range(new.parents) = Pre.op_heads
                     /\ Len(new.parents) = Cardinality(Pre.op_heads)
                     /\ Len(new.parents) >= 2

\* A snapshot of the working copy was committed on the repo reloaded at the
\* operation of the working copy, not on the repo the command had loaded.
C28_Witness ==
    /\ out.chk # NoCheck
    /\ "reload_at" \in Events(out.log)
    /\ E("commit", Len(ops)) \in Range(out.log)
    /\ ops[Len(ops)].parents = <<out.chk.wc_op>>
    /\ out.chk.wc_op # out.chk.repo_op

\* C29: a resolution that merged N >= 2 heads leaves its merge operation as
\* the only head, and a resolution that follows a resolution is a no-op: it
\* reads the one head, gives it as the operation to load and writes and
\* publishes nothing.
C29_ResolutionIdempotent ==
    [][/\ (Resolving(out') /\ "update_op_heads" \in Events(out'.log))
            => /\ Cardinality(op_heads) >= 2
               /\ Len(ops') = Len(ops) + 1
               /\ op_heads' = {Len(ops')}
               /\ repo'[out'.proc] = Len(ops')
       /\ (ResolvedAtHead(out) /\ Resolving(out'))
            => /\ UNCHANGED <<ops, op_heads>>
               /\ out'.log = <<E("get_op_heads", 1)>>
               /\ out'.result = NoResult
               /\ op_heads = {repo'[out'.proc]}
               /\ repo'[out'.proc] = repo[out.proc]]_vars

\* Several heads were resolved into a merge operation, which process 1 has
\* loaded; process 2 then resolved "@" and got that operation, nothing
\* written.
C29_Witness ==
    /\ Resolving(out)
    /\ out.proc = 2
    /\ out.log = <<E("get_op_heads", 1)>>
    /\ Len(ops[Len(ops)].parents) >= 2
    /\ op_heads = {Len(ops)}
    /\ repo[2] = Len(ops)
    /\ repo[1] = Len(ops)
    /\ pc[1] \in {"snapshot", "loaded"}

\* C30: a resolution that writes its operation has read N heads, loaded the
\* repo and started the transaction at the first, merged the N-1 others one
\* by one in the order they become parents, run a descendant rebase right
\* after each merge and before the next, and written once, after the last
\* rebase; a resolution that fails has written nothing.
C30_MergeThenRebaseInOrder ==
    Resolving(out)
        => LET lg == out.log
               merges == Positions(lg, "merge")
               rebases == Positions(lg, "rebase")
               writes == Positions(lg, "write")
           IN IF writes = {}
              THEN /\ "update_op_heads" \notin Events(lg)
                   /\ \A m \in merges : m < Len(lg) => lg[m + 1].ev = "rebase"
                   /\ (merges # {} \/ lg[1].n # 1) => out.result.kind = "internal"
              ELSE LET new == ops[Len(ops)]
                       N == Len(new.parents)
                   IN /\ N >= 2
                      /\ lg[1] = E("get_op_heads", N)
                      /\ lg[3] = E("load_at", new.parents[1])
                      /\ lg[4] = E("start_tx", new.parents[1])
                      /\ BaseAndMerged(lg) = new.parents
                      /\ Cardinality(merges) = N - 1
                      /\ Cardinality(rebases) = N - 1
                      /\ Cardinality(writes) = 1
                      /\ \A m \in merges : lg[m + 1].ev = "rebase"
                      /\ \A r \in rebases : lg[r - 1].ev = "merge"
                      /\ \A w \in writes :
                            /\ \A r \in rebases : r < w
                            /\ lg[w] = E("write", Len(ops))
                            /\ w = Len(lg) - 1

\* Three heads were resolved with the highest listed first: two merges, a
\* rebase after each, one write.
C30_Witness ==
    /\ Resolving(out)
    /\ Cardinality(Positions(out.log, "merge")) = 2
    /\ Cardinality(Positions(out.log, "write")) = 1
    /\ Len(ops[Len(ops)].parents) = 3
    /\ ops[Len(ops)].parents[1] > ops[Len(ops)].parents[2]
    /\ ops[Len(ops)].parents[2] > ops[Len(ops)].parents[3]

\* C31: the hints of report_repo_changes are shown exactly when some
\* conflicted commit was added and some change id is reported as resolved or
\* as new; they name the added conflicted commits that have no other added
\* conflicted commit among their ancestors; the notice that conflicts remain
\* in rebased descendants is shown exactly when the hints are shown and no
\* change id is new.
C31_RootHints ==
    Reported
        => LET g == report.commits
               added == {k \in CommitIds : InNew(k) /\ ~InOld(k) /\ Counted(k)}
               dag_roots == {k \in added :
                               \A a \in added : a # k => a \notin AncestorsOf(g, k)}
               shown == "msg_hint" \in Events(report.log)
               notice == "msg_still_unresolved" \in Events(report.log)
           IN /\ shown <=> (added # {} /\ (DOMAIN report.resolved # {}
                                           \/ DOMAIN report.new # {}))
              /\ shown => (report.roots = dag_roots /\ report.roots # {})
              /\ ~shown => report.roots = {}
              /\ notice <=> (shown /\ DOMAIN report.new = {})

\* Hints for new conflicts where an added conflicted commit descends from
\* another through a commit without conflicts: only the ancestor is named.
C31_Witness ==
    /\ Reported
    /\ "msg_hint" \in Events(report.log)
    /\ \E k \in report.added :
          /\ k \notin report.roots
          /\ report.commits[k].parents \cap report.added = {}

\* C32: start_working_copy_mutation fails without asking for the lock when
\* the helper may not update the working copy or the view has no
\* working-copy commit; once it holds the lock it returns the user error
\* "Concurrent working copy operation. Try again." when the tree recorded in
\* the working copy is not the tree of the working-copy commit, and Ok with
\* the lock held when it is; it returns that user error in no other case.
C32_ConcurrentIffTreesDiffer ==
    StartingMutation(out)
        => LET wc_commit_id == out.log[4].n
               wc_tree == out.log[5].n
               old_tree_id == out.log[6].n
               may_update_wc == out.log[7].n = 1
           IN /\ (~may_update_wc \/ wc_commit_id = NoCommit.id)
                    => /\ out.result.kind = "user"
                       /\ out.result # ConcurrentOperation
                       /\ ~LockAcquired(out) /\ ~LockRefused(out)
                       /\ wc_lock = 0
              /\ (may_update_wc /\ wc_commit_id # NoCommit.id)
                    => (LockAcquired(out) \/ LockRefused(out))
              /\ (LockAcquired(out) /\ wc_tree # old_tree_id)
                    => (out.result = ConcurrentOperation /\ wc_lock = 0)
              /\ (LockAcquired(out) /\ wc_tree = old_tree_id)
                    => (out.result = Ok /\ wc_lock # 0)
              /\ out.result = ConcurrentOperation
                    => (LockAcquired(out) /\ wc_tree # old_tree_id)

\* A helper that may update the working copy got the lock, found the tree of
\* its working-copy commit recorded, and returned Ok holding the lock.
C32_Witness ==
    /\ StartingMutation(out)
    /\ out.log[7].n = 1
    /\ LockAcquired(out)
    /\ out.log[5].n = out.log[6].n
    /\ out.log[4].n # out.log[5].n
    /\ out.result = Ok
    /\ wc_lock # 0

\* The latest step was handle_command_result, and what it returned.
Handling(o) == o.log # <<>> /\ o.log[1].ev = "handle_command_result"
ExitCode(o, c) == E("exit", c) \in Range(o.log)
HintWritten(o) == "write_hint" \in Events(o.log)

\* C33 as stated: each kind of result gives its exit code.
C33_Original ==
    Handling(out)
        => /\ out.result.kind = "ok" => ExitCode(out, 0)
           /\ out.result.kind \in {"user", "config"} => ExitCode(out, 1)
           /\ out.result.kind = "cli" => ExitCode(out, 2)
           /\ out.result.kind = "broken_pipe" => ExitCode(out, 3)
           /\ out.result.kind = "internal" => ExitCode(out, 255)
           /\ HintWritten(out) => out.result.kind \in {"user", "config"}

\* C33: handle_command_result gives exit code 0 for Ok and 3 for BrokenPipe;
\* for UserError and ConfigError it gives 1, for CliError 2 and for
\* InternalError 255 when every write of the message to ui succeeded, and
\* the io error of the write that failed otherwise, which the process turns
\* into exit code 3; a hint is written only for a UserError that has one and
\* for ConfigError, never for InternalError.
C33_ExitCodes ==
    Handling(out)
        => LET io_failed == "io_error" \in Events(out.log)
               code == CASE out.result.kind = "ok" -> 0
                         [] out.result.kind \in {"user", "config"} -> 1
                         [] out.result.kind = "cli" -> 2
                         [] out.result.kind = "broken_pipe" -> 3
                         [] out.result.kind = "internal" -> 255
                         [] OTHER -> 256
           IN /\ out.result.kind \in {"ok", "broken_pipe"} => ~io_failed
              /\ (out.result.kind # "clap" /\ ~io_failed)
                    => (ExitCode(out, code) /\ E("process_exit", code) \in Range(out.log))
              /\ io_failed
                    => /\ \A c \in 0..255 : ~ExitCode(out, c)
                       /\ E("process_exit", 3) \in Range(out.log)
              /\ HintWritten(out)
                    => \/ out.result.kind = "user" /\ out.result.hint # ""
                       \/ out.result.kind = "config"
              /\ (~io_failed /\ out.result.kind = "config") => HintWritten(out)
              /\ (~io_failed /\ out.result.kind = "user" /\ out.result.hint # "")
                    => HintWritten(out)

\* An internal error with a chain of sources was written in full: exit code
\* 255, no hint.
C33_Witness ==
    /\ Handling(out)
    /\ out.result.kind = "internal"
    /\ "write_source" \in Events(out.log)
    /\ ExitCode(out, 255)
    /\ ~HintWritten(out)

\* The two operations have an operation behind both of them.
Related(a, b) == \E c \in OpIds : IsAncestor(c, a) /\ IsAncestor(c, b)

\* C34: when the tree recorded in the working copy is not the tree of the
\* working-copy commit and the recorded operation and the repo's operation
\* have no common ancestor, check_stale_working_copy panics with "unrelated
\* operations": it returns no classification and no error, and the snapshot
\* goes no further; it panics in no other case.
C34_UnrelatedPanics ==
    Checked
        => LET unrelated == /\ TreesDiffer(out.chk)
                            /\ ~Related(out.chk.wc_op, out.chk.repo_op)
           IN /\ unrelated
                    => /\ out.chk.res = Panic
                       /\ out.result.kind = "panic"
                       /\ out.result.msg = "unrelated operations"
                       /\ Events(out.log) \cap {"reload_at", "snapshot", "commit", "wc_finish"} = {}
              /\ ~unrelated
                    => /\ out.chk.res.state \in {"Fresh", "Updated", "WorkingCopyStale",
                                                  "SiblingOperation"}
                       /\ out.result.kind # "panic"

\* The working copy was recorded at an operation unrelated to the one the
\* command loaded, with another tree: the check panicked.
C34_Witness ==
    /\ Checked
    /\ TreesDiffer(out.chk)
    /\ ~Related(out.chk.wc_op, out.chk.repo_op)
    /\ out.chk.res = Panic
    /\ out.result.msg = "unrelated operations"

\* C35: resolve_aliases returns.  Each time round its loop it returns, or
\* expands an alias of the table that it had not expanded, which leaves the
\* table; a command name that was expanded before ends the loop with the
\* user error "Recursive alias definition"; the aliases expanded are never
\* more than the aliases defined.
C35_AliasesTerminate ==
    /\ [][alias.pc = "loop"
            => \/ alias'.pc = "done" /\ alias'.string_args = alias.string_args
               \/ /\ alias'.pc = "loop"
                  /\ \E a \in DOMAIN alias.aliases_map \ alias.resolved_aliases :
                        /\ a = alias.string_args[2]
                        /\ alias'.resolved_aliases = alias.resolved_aliases \cup {a}
                        /\ DOMAIN alias'.aliases_map = DOMAIN alias.aliases_map \ {a}]_vars
    /\ [][(/\ alias.pc = "loop"
            /\ Len(alias.string_args) >= 2
            /\ alias.string_args[2] \in alias.resolved_aliases)
            => /\ alias'.pc = "done"
               /\ alias'.result = user_error("Recursive alias definition involving")]_vars
    /\ [](/\ Cardinality(alias.resolved_aliases) <= Cardinality(DOMAIN alias.defined)
          /\ alias.resolved_aliases \subseteq DOMAIN alias.defined
          /\ alias.resolved_aliases \cap DOMAIN alias.aliases_map = {})
    /\ <>(alias.pc = "done")

\* Two aliases that name each other: both were expanded, the first was met
\* again and the loop ended with the error.
C35_Witness ==
    /\ alias.pc = "done"
    /\ Cardinality(alias.resolved_aliases) = 2
    /\ alias.resolved_aliases = DOMAIN alias.defined
    /\ alias.result = user_error("Recursive alias definition involving")

\* C36: when snapshot_working_copy returns Ok after the check of the working
\* copy, the working-copy record names the operation of the session's repo
\* and the tree of that repo's working-copy commit; that repo is the one
\* loaded (Fresh) or the one reloaded at the recorded operation (Updated)
\* when the snapshot found nothing new, and otherwise the operation the
\* snapshot committed on top of it.
C36_RecordIsSessionRepo ==
       (out.chk.res.state # "none" /\ out.result = NoResult)
       => LET p == out.proc
              base == IF out.chk.res.state = "Updated" THEN Pre.wc_record.op ELSE Pre.repo[p]
          IN /\ out.chk.res.state \in {"Fresh", "Updated"}
             /\ wc_record.op = repo[p]
             /\ wc_record.tree = ops[repo[p]].wc.tree
             /\ \/ ops = Pre.ops /\ repo[p] = base
                \/ /\ Len(ops) = Len(Pre.ops) + 1
                   /\ repo[p] = Len(ops)
                   /\ ops[Len(ops)].parents = <<base>>

\* A snapshot found the working copy ahead of the loaded repo, reloaded at
\* the recorded operation and committed a new tree on top of it: the record
\* and the session are at the new operation.
C36_Witness ==
    /\ out.chk.res.state = "Updated"
    /\ out.result = NoResult
    /\ "commit" \in Events(out.log)
    /\ wc_record.op = Len(ops)
    /\ repo[out.proc] = Len(ops)
    /\ ops[Len(ops)].parents = <<out.chk.wc_op>>
    /\ out.chk.wc_op # out.chk.repo_op

SecondSnapshot == Pre.pc[2] = "locked" /\ Pre.repo[2] = 1 /\ out.proc = 2

\* C39 as stated: the second process finds the working copy Fresh or
\* Updated, and the operation it commits is no child of the loaded
\* operation beside the first snapshot: it has the first snapshot behind it.
C39_Original ==
       SecondSnapshot
       => /\ out.chk.res.state \in {"Fresh", "Updated"}
          /\ ops # Pre.ops
               => /\ ops[Len(ops)].parents # <<1>>
                  /\ IsAncestorIn(ops, 2, Len(ops))

\* C39: when the second process takes the lock while the record is the one
\* the first snapshot wrote, it finds the working copy Updated, reloads at
\* the first snapshot and commits on top of it.  Whenever it finds Updated
\* it reloads at the recorded operation, which has the first snapshot
\* behind it, and commits there.  It finds Fresh when the recorded tree is
\* again the tree of the commit it loaded, and then the operation it
\* commits is a child of the loaded operation, beside the first snapshot.
C39_ChainWhenUpdated ==
       SecondSnapshot
       => LET new == ops[Len(ops)] IN
          /\ out.chk.res.state \in {"Fresh", "Updated"}
          /\ out.chk.res.state = "Fresh" <=> Pre.wc_record.tree = Pre.ops[1].wc.tree
          /\ Pre.wc_record = [op |-> 2, tree |-> 2]
               => /\ out.chk.res = Updated(2)
                  /\ E("reload_at", 2) \in Range(out.log)
                  /\ IF ops # Pre.ops THEN new.parents = <<2>> ELSE repo[2] = 2
          /\ out.chk.res.state = "Updated"
               => /\ IsAncestorIn(Pre.ops, 2, Pre.wc_record.op)
                  /\ E("reload_at", Pre.wc_record.op) \in Range(out.log)
                  /\ ops # Pre.ops => new.parents = <<Pre.wc_record.op>>
                  /\ IsAncestorIn(ops, 2, repo[2])
          /\ (out.chk.res.state = "Fresh" /\ ops # Pre.ops)
               => /\ new.parents = <<1>>
                  /\ ~IsAncestorIn(ops, 2, Len(ops))

\* The second process found the record of the first snapshot, reloaded at
\* operation 2 and committed its own snapshot on top of it.
C39_Witness ==
    /\ out.proc = 2
    /\ out.chk.res = Updated(2)
    /\ out.chk.repo_op = 1
    /\ Len(ops) = 3
    /\ ops[3].parents = <<2>>
    /\ wc_record.op = 3
    /\ repo[2] = 3
    /\ E("commit", 3) \in Range(out.log)

\* C40: a finish_transaction that committed a new operation for a session
\* that may update the working copy, with a working-copy commit in the new
\* view, goes on to update_working_copy (it does not return before), whether
\* the change report succeeded or failed.
C40_Original ==
    [][(/\ Finishing(out')
        /\ "commit" \in Events(out'.log)
        /\ may_update[out'.proc]
        /\ ops'[Len(ops')].wc # NoCommit)
       => pc'[out'.proc] = "committed"]_vars

====
